---- MODULE Spec2Model ----
(***************************************************************************)
(* Response normalisation of the Spring Test App.                          *)
(*                                                                         *)
(* APIClientWorker.run (utils/api_client.py) turns the text of a model     *)
(* response into a table (a pandas DataFrame); standardize_sequence_data   *)
(* (utils/text_parser.py) canonicalises a parsed list of row objects.      *)
(*                                                                         *)
(* A text is a sequence of tokens.  A token is an indivisible run of       *)
(* characters: a marker, a code fence, a white-space run, a prose word, a  *)
(* JSON punctuation character, a JSON number or a whole JSON object        *)
(* literal.  A cell value is a text as well; the empty string is << >>.    *)
(***************************************************************************)
EXTENDS Integers, Sequences, FiniteSets, TLC

VARIABLES
    response_text,  \* message content handed to the worker (api_client.py:132)
    df,             \* the table passed to finished.emit (api_client.py:269)
    outcome,        \* "pending" | "returned" | "raised"
    data,           \* argument of standardize_sequence_data
    standardized_data, \* its return value
    std_done,       \* standardize_sequence_data has returned
    restandardized_data, \* its return value when given standardized_data
    restd_done,     \* that second call has returned
    text_lines,     \* the lines of the text given to a parser or handler
    parsed_data,    \* <<r>>: parse_specifications_text returned r
    chat_parsed_data, \* <<r>>: the parsed_data of parse_spring_specs at its end
    chat_returned,  \* <<b>>: parse_spring_specs returned b
    cleaned_text,   \* <<t>>: clean_pdf_text returned t
    pdf_parsed_data, \* <<r>>: parse_specifications_text returned r for t
    spring_specification, \* the specification the settings service stores
    previous_specification, \* what it stored when the last call began
    specifications, \* SpecificationsPanel.specifications, the panel's copy
    form,           \* the values of the panel's basic-info widgets
    settings_calls, \* the settings operations the last call applied
    handler,        \* the function or handler that ran last
    returned,       \* it came to its end
    steps,          \* the number of handlers that ran
    prompt,         \* the message the user has sent (chat_panel.py:200)
    is_request,     \* <<b>>: is_sequence_request returned b
    parameters,     \* <<d>>: extract_parameters returned d
    parameter_text, \* <<t>>: format_parameter_text returned t
    chat_memory,    \* APIClient.chat_memory, the recent parameter summaries
    workers,        \* the APIClientWorker objects created so far
    current_worker, \* APIClient.current_worker, 0 for None
    completed,      \* history: the summaries in the order their requests completed
    last_call,      \* <<c>>: the service operation called last and its arguments
    history,        \* ChatService.history, a message is <<role, content>>
    max_history,    \* ChatService.max_history
    history_file,   \* <<>>: no chat_history.dat; <<h>>: the file holds the messages h
    previous_history, \* the history when the last operation began
    saved_history   \* <<h>>: the history was h when save_history was last called

worker_vars == <<response_text, df, outcome, data, standardized_data, std_done,
                 restandardized_data, restd_done>>

parser_vars == <<text_lines, parsed_data, chat_parsed_data, chat_returned, cleaned_text,
                 pdf_parsed_data, spring_specification, previous_specification,
                 specifications, form, settings_calls, handler, returned, steps>>

request_vars == <<prompt, is_request, parameters, parameter_text>>

client_vars == <<chat_memory, workers, current_worker, completed>>

chat_vars == <<history, max_history, history_file, previous_history, saved_history>>

late_vars == <<request_vars, client_vars, last_call, chat_vars>>

vars == <<worker_vars, parser_vars, late_vars>>

(* no message has been sent *)
NoRequest ==
    /\ prompt = <<>>
    /\ is_request = <<>>
    /\ parameters = <<>>
    /\ parameter_text = <<>>

(* no client has been created *)
NoClient ==
    /\ chat_memory = <<>>
    /\ workers = <<>>
    /\ current_worker = 0
    /\ completed = <<>>

(* no chat service has been created *)
NoChat ==
    /\ history = <<>>
    /\ max_history = 0
    /\ history_file = <<>>
    /\ previous_history = <<>>
    /\ saved_history = <<>>

NoLate == NoRequest /\ NoClient /\ last_call = <<>> /\ NoChat

----------------------------------------------------------------------------
(* Tokens *)

WS == "ws"                  \* a run of white space (" ", "\n")
FenceJson == "<fence-json>"    \* the characters of a json code fence opener
Fence == "<fence>"             \* the characters of a bare code fence
sequence_data_start == "---SEQUENCE_DATA_START---"
sequence_data_end == "---SEQUENCE_DATA_END---"
BlankLine == "<blank-line>"      \* two newline characters
NaN == <<"<NaN>">>          \* the missing value of pandas; no text equals it
EmptyStr == <<>>

required_columns ==
    <<"Row", "CMD", "Description", "Condition", "Unit", "Tolerance", "Speed rpm">>

----------------------------------------------------------------------------
(* Sequence helpers *)

Range(s) == {s[i] : i \in 1..Len(s)}

IndexOf(s, x) == CHOOSE i \in 1..Len(s) : s[i] = x /\ \A j \in 1..(i-1) : s[j] # x

RECURSIVE Without(_, _)
Without(s, x) ==
    IF s = <<>> THEN <<>>
    ELSE IF Head(s) = x THEN Without(Tail(s), x)
    ELSE <<Head(s)>> \o Without(Tail(s), x)

(* str.replace(tok, "") *)
Replace(s, tok) == Without(s, tok)

RECURSIVE LStrip(_)
LStrip(s) == IF s # <<>> /\ Head(s) = WS THEN LStrip(Tail(s)) ELSE s

RECURSIVE RStrip(_)
RStrip(s) ==
    IF s # <<>> /\ s[Len(s)] = WS THEN RStrip(SubSeq(s, 1, Len(s) - 1)) ELSE s

(* str.strip() *)
Strip(s) == RStrip(LStrip(s))

(* str.split(sep): the list of the pieces between the occurrences of sep *)
RECURSIVE Split(_, _)
Split(s, sep) ==
    IF sep \notin Range(s) THEN <<s>>
    ELSE LET i == IndexOf(s, sep)
         IN  <<SubSeq(s, 1, i - 1)>> \o Split(SubSeq(s, i + 1, Len(s)), sep)

StartsWith(s, tok) == s # <<>> /\ s[1] = tok
EndsWith(s, tok) == s # <<>> /\ s[Len(s)] = tok

----------------------------------------------------------------------------
(* JSON object literals that occur in the modelled responses.  JsonObject   *)
(* gives the key/value pairs of a literal in the order json.loads keeps     *)
(* them (a Python dict keeps insertion order).                              *)

ObjectTokens == {"{zf}", "{th}", "{mv}", "{chat}", "{td}"}
NumberToken == "5"

JsonObject(tok) ==
    CASE tok = "{zf}" ->
           <<  <<"Row", <<"R00">>>>, <<"Cmd", <<"ZF">>>>, <<"Condition", <<>>>>,
               <<"Unit", <<>>>>, <<"Tolerance", <<>>>>, <<"Speed", <<"5", "0">>>> >>
      [] tok = "{th}" ->
           <<  <<"Row", <<"R01">>>>, <<"CMD", <<"TH">>>>,
               <<"Description", <<"Search Contact">>>>, <<"Condition", <<"1", "0">>>>,
               <<"Unit", <<"N">>>>, <<"Tolerance", <<>>>>, <<"Speed rpm", <<"5", "0">>>> >>
      [] tok = "{mv}" ->
           <<  <<"Row", <<"R02">>>>, <<"Command", <<"Mv(P)">>>>,
               <<"Description", <<"L1">>>>, <<"Condition", <<"4", "0">>>>,
               <<"Units", <<"mm">>>> >>
      [] tok = "{chat}" ->
           <<  <<"Row", <<"CHAT">>>>, <<"CMD", <<"CHAT">>>>,
               <<"Description", <<"hi">>>> >>
      [] tok = "{td}" ->
           <<  <<"Row", <<"R03">>>>, <<"Cmd", <<"TD">>>>, <<"Speed", <<>>>> >>

Keys(obj) == [i \in 1..Len(obj) |-> obj[i][1]]
HasKey(obj, k) == \E i \in 1..Len(obj) : obj[i][1] = k
Get(obj, k) == obj[CHOOSE i \in 1..Len(obj) : obj[i][1] = k][2]

----------------------------------------------------------------------------
(* json.loads on a token text.  White space between JSON tokens is          *)
(* insignificant; a value is a number, an object literal or an array of     *)
(* numbers and object literals separated by commas.  Anything else (prose,  *)
(* an unbalanced bracket, text after the value) is a JSONDecodeError.       *)

JsonFail == [ok |-> FALSE, kind |-> "none", items |-> <<>>]

IsJsonItem(tok) == tok \in ObjectTokens \cup {NumberToken}

json_loads(text) ==
    LET t == Without(text, WS)
        n == Len(t)
        inner == SubSeq(t, 2, n - 1)
        m == Len(inner)
    IN  IF n = 1 /\ t[1] = NumberToken
          THEN [ok |-> TRUE, kind |-> "num", items |-> <<t[1]>>]
        ELSE IF n = 1 /\ t[1] \in ObjectTokens
          THEN [ok |-> TRUE, kind |-> "obj", items |-> <<t[1]>>]
        ELSE IF n >= 2 /\ t[1] = "[" /\ t[n] = "]"
          THEN IF m = 0 THEN [ok |-> TRUE, kind |-> "arr", items |-> <<>>]
               ELSE IF /\ m % 2 = 1
                       /\ \A i \in 1..m : IF i % 2 = 1 THEN IsJsonItem(inner[i])
                                                       ELSE inner[i] = ","
                 THEN [ok |-> TRUE, kind |-> "arr",
                       items |-> [i \in 1..((m + 1) \div 2) |-> inner[2 * i - 1]]]
               ELSE JsonFail
        ELSE JsonFail

----------------------------------------------------------------------------
(* pandas tables.  A table has an ordered list of column names and a list   *)
(* of rows; row[i] is the cell under columns[i].                            *)

Table(cols, rws) == [columns |-> cols, rows |-> rws]

RECURSIVE AppendNew(_, _)
AppendNew(cols, ks) ==
    IF ks = <<>> THEN cols
    ELSE AppendNew(IF Head(ks) \in Range(cols) THEN cols ELSE Append(cols, Head(ks)),
                   Tail(ks))

RECURSIVE UnionKeys(_, _)
UnionKeys(cols, items) ==
    IF items = <<>> THEN cols
    ELSE UnionKeys(AppendNew(cols, Keys(JsonObject(Head(items)))), Tail(items))

(* pd.DataFrame(data) for a parsed JSON value.  exc is the exception the    *)
(* constructor raises, "none" if it returns.                                *)
(*  - a scalar: ValueError (constructor not properly called);               *)
(*  - a dict of scalars: ValueError (all scalar values without an index);   *)
(*  - a list whose first element is a dict: the column names are the keys   *)
(*    in order of first appearance, a key missing in a row gives NaN; an    *)
(*    element that is not a dict has no keys(): AttributeError;             *)
(*  - a list whose first element is a scalar: one column named 0.           *)
DataFrame(val) ==
    LET items == val.items
        cols == UnionKeys(<<>>, items)
    IN  IF val.kind \in {"num", "obj"}
          THEN [exc |-> "ValueError", table |-> Table(<<>>, <<>>)]
        ELSE IF items = <<>>
          THEN [exc |-> "none", table |-> Table(<<>>, <<>>)]
        ELSE IF items[1] \in ObjectTokens
          THEN IF \E i \in 1..Len(items) : items[i] \notin ObjectTokens
                 THEN [exc |-> "AttributeError", table |-> Table(<<>>, <<>>)]
               ELSE [exc |-> "none",
                     table |-> Table(cols,
                        [i \in 1..Len(items) |->
                           [j \in 1..Len(cols) |->
                              IF HasKey(JsonObject(items[i]), cols[j])
                                THEN Get(JsonObject(items[i]), cols[j])
                                ELSE NaN]])]
        ELSE [exc |-> "none",
              table |-> Table(<<"0">>, [i \in 1..Len(items) |-> << <<items[i]>> >>])]

(* df.rename(columns={old: new}) *)
RenameColumn(t, old, new) ==
    Table([j \in 1..Len(t.columns) |-> IF t.columns[j] = old THEN new ELSE t.columns[j]],
          t.rows)

(* df[col] = "" for a column the table does not have *)
AddEmptyColumn(t, col) ==
    Table(Append(t.columns, col), [i \in 1..Len(t.rows) |-> Append(t.rows[i], EmptyStr)])

RECURSIVE AddMissingColumns(_, _)
AddMissingColumns(t, cols) ==
    IF cols = <<>> THEN t
    ELSE AddMissingColumns(IF Head(cols) \in Range(t.columns) THEN t
                           ELSE AddEmptyColumn(t, Head(cols)),
                           Tail(cols))

(* df[cols]: the listed columns, in the listed order *)
SelectColumns(t, cols) ==
    Table(cols, [i \in 1..Len(t.rows) |->
                   [j \in 1..Len(cols) |-> t.rows[i][IndexOf(t.columns, cols[j])]]])

(* pd.concat([a, b], ignore_index=True) for tables with the same columns *)
Concat(a, b) == Table(a.columns, a.rows \o b.rows)

Cell(t, i, col) == t.rows[i][IndexOf(t.columns, col)]

----------------------------------------------------------------------------
(* APIClientWorker.run, lines 146-249: from the response text to the table. *)

ChatCell == <<"CHAT">>
NoTable == Table(<<>>, <<>>)

(* pd.DataFrame([{"Row": "CHAT", "CMD": "CHAT", "Description": text}]) *)
MessageTable(text) ==
    Table(<<"Row", "CMD", "Description">>, << <<ChatCell, ChatCell, text>> >>)

(* the chat row of a hybrid response, lines 194-203 *)
ChatRowTable(conversation_text) ==
    AddMissingColumns(MessageTable(conversation_text), required_columns)

(* line 147: remove the code fences, trim *)
CleanResponse(raw) == Strip(Replace(Replace(raw, FenceJson), Fence))

(* lines 156-165 *)
ConversationText(text) ==
    LET parts == Split(text, sequence_data_start)
        seq_parts == Split(parts[2], sequence_data_end)
        before == Strip(parts[1])
    IN  IF Len(seq_parts) > 1 /\ Strip(seq_parts[2]) # <<>>
          THEN before \o <<BlankLine>> \o Strip(seq_parts[2])
          ELSE before

(* lines 156-161 *)
SequenceJsonText(text) ==
    LET parts == Split(text, sequence_data_start)
        seq_parts == Split(parts[2], sequence_data_end)
    IN  Strip(seq_parts[1])

(* lines 174-191 and 223-240: column names of the parsed table *)
CanonicalColumns(t) ==
    LET t1 == IF "Cmd" \in Range(t.columns) /\ "CMD" \notin Range(t.columns)
                THEN RenameColumn(t, "Cmd", "CMD") ELSE t
        t2 == IF "Speed" \in Range(t1.columns) /\ "Speed rpm" \notin Range(t1.columns)
                THEN RenameColumn(t1, "Speed", "Speed rpm") ELSE t1
    IN  SelectColumns(AddMissingColumns(t2, required_columns), required_columns)

(* line 153 with the test of the end marker left out *)
IsHybridStartOnly(text) == sequence_data_start \in Range(text)

IsHybrid(text) ==
    sequence_data_start \in Range(text) /\ sequence_data_end \in Range(text)

IsJsonOnly(text) == StartsWith(Strip(text), "[") /\ EndsWith(Strip(text), "]")

(* The outcome of lines 146-249 for the raw message content: the table, or  *)
(* the exception that leaves run.  json.JSONDecodeError and ValueError are  *)
(* caught at lines 208 and 241; no handler of run catches AttributeError.   *)
Normalize(raw) ==
    LET text == CleanResponse(raw)
        payload == IF IsHybrid(text) THEN SequenceJsonText(text) ELSE text
        parsed == json_loads(payload)
        frame == DataFrame(parsed)
    IN  IF IsHybrid(text) \/ IsJsonOnly(text)
          THEN IF ~parsed.ok \/ frame.exc = "ValueError"
                 THEN [outcome |-> "returned", df |-> MessageTable(text)]
               ELSE IF frame.exc # "none"
                 THEN [outcome |-> "raised", df |-> NoTable]
               ELSE IF IsHybrid(text)
                 THEN [outcome |-> "returned",
                       df |-> Concat(ChatRowTable(ConversationText(text)),
                                     CanonicalColumns(frame.table))]
               ELSE [outcome |-> "returned", df |-> CanonicalColumns(frame.table)]
        ELSE [outcome |-> "returned", df |-> MessageTable(text)]

----------------------------------------------------------------------------
(* The response texts the worker is run on. *)

MaxRows == 2        \* rows of a JSON array in a response

Pre == {<<>>, <<"Here">>, <<WS, "Here", WS>>, <<FenceJson, WS>>}
Post == {<<>>, <<"Done">>, <<WS, "Done", WS>>, <<WS, Fence>>}
Markers == {<<>>, <<sequence_data_start>>, <<sequence_data_end>>}

RECURSIVE JsonArrayText(_)
JsonArrayText(items) ==
    IF items = <<>> THEN <<>>
    ELSE IF Len(items) = 1 THEN <<items[1]>>
    ELSE <<items[1], ",">> \o JsonArrayText(Tail(items))

ObjectArrays ==
    UNION {[1..n -> ObjectTokens] : n \in 1..MaxRows}

Payloads ==
    {<<"[">> \o JsonArrayText(items) \o <<"]">> : items \in ObjectArrays}
    \cup { <<>>, <<"[", "]">>, <<NumberToken>>, <<"{zf}">>,
           <<"[", NumberToken, "]">>,
           <<"[", "{zf}", ",", NumberToken, "]">>,
           <<"[", NumberToken, ",", "{zf}", "]">>,
           <<"[", "{zf}", "]", WS, "note">>,
           <<"see", "[", "{zf}", "]">>,
           <<"[", "{zf}">>,
           <<"[", "oops", "]">>,
           <<"[", "{zf}", ",", "]">>,
           <<WS, "[", WS, "{zf}", WS, "]", WS>> }

ResponseTexts ==
    {a \o m1 \o p \o m2 \o b :
        a \in Pre, m1 \in Markers, p \in Payloads, m2 \in Markers, b \in Post}

----------------------------------------------------------------------------
(* The worker: one run per response. *)

(* no specifications panel and no chat panel has been built *)
NoPanel ==
    /\ text_lines = <<>>
    /\ parsed_data = <<>>
    /\ chat_parsed_data = <<>>
    /\ chat_returned = <<>>
    /\ cleaned_text = <<>>
    /\ pdf_parsed_data = <<>>
    /\ spring_specification = <<>>
    /\ previous_specification = <<>>
    /\ specifications = <<>>
    /\ form = <<>>
    /\ settings_calls = <<>>
    /\ handler = "none"
    /\ returned = TRUE
    /\ steps = 0

Init ==
    /\ response_text \in ResponseTexts
    /\ df = NoTable
    /\ outcome = "pending"
    /\ data = <<>>
    /\ standardized_data = <<>>
    /\ std_done = FALSE
    /\ restandardized_data = <<>>
    /\ restd_done = FALSE
    /\ NoPanel
    /\ NoLate

Run ==
    /\ outcome = "pending"
    /\ outcome' = Normalize(response_text).outcome
    /\ df' = Normalize(response_text).df
    /\ UNCHANGED <<response_text, data, standardized_data, std_done,
                   restandardized_data, restd_done>>
    /\ UNCHANGED parser_vars
    /\ UNCHANGED late_vars

Next == Run

Spec == Init /\ [][Next]_vars

----------------------------------------------------------------------------
(* standardize_sequence_data: the tables it is built on.                    *)

(* the column map with the CMD entry written the wrong way round as well *)
column_mapReversedEntry(key) ==
    CASE key = "Cmd" -> "CMD"
      [] key = "CMD" -> "Cmd"
      [] key = "Command" -> "CMD"
      [] key = "cmd" -> "CMD"
      [] key = "Units" -> "Unit"
      [] key = "unit" -> "Unit"
      [] key = "Speed" -> "Speed rpm"
      [] OTHER -> key

column_map(key) ==
    CASE key = "Cmd" -> "CMD"
      [] key = "Command" -> "CMD"
      [] key = "cmd" -> "CMD"
      [] key = "Units" -> "Unit"
      [] key = "unit" -> "Unit"
      [] key = "Speed" -> "Speed rpm"
      [] OTHER -> key

description_map_keys ==
    { <<"ZF">>, <<"TH">>, <<"FL(P)">>, <<"Mv(P)">>, <<"Fr(P)">>, <<"Scrag">>,
      <<"TD">>, <<"PMsg">> }

description_map(cmd) ==
    CASE cmd = <<"ZF">> -> <<"Zero Force">>
      [] cmd = <<"TH">> -> <<"Search Contact">>
      [] cmd = <<"FL(P)">> -> <<"Measure Free Length-Position">>
      [] cmd = <<"Mv(P)">> -> <<"Move to Position">>
      [] cmd = <<"Fr(P)">> -> <<"Force @ Position">>
      [] cmd = <<"Scrag">> -> <<"Scragging">>
      [] cmd = <<"TD">> -> <<"Time Delay">>
      [] cmd = <<"PMsg">> -> <<"User Message">>

(* the command vocabulary and its descriptions, constants.COMMANDS *)
COMMANDS_keys ==
    { <<"ZF">>, <<"ZD">>, <<"TH">>, <<"LP">>, <<"Mv(P)">>, <<"Calc">>, <<"TD">>,
      <<"PMsg">>, <<"Fr(P)">>, <<"FL(P)">>, <<"Scrag">>, <<"SR">>, <<"PkF">>,
      <<"PkP">>, <<"Po(F)">>, <<"Po(PkF)">>, <<"Mv(F)">>, <<"PUi">> }

COMMANDS(cmd) ==
    CASE cmd = <<"ZF">> -> <<"Zero Force">>
      [] cmd = <<"ZD">> -> <<"Zero Displacement">>
      [] cmd = <<"TH">> -> <<"Threshold (Search Contact)">>
      [] cmd = <<"LP">> -> <<"Loop">>
      [] cmd = <<"Mv(P)">> -> <<"Move to Position">>
      [] cmd = <<"Calc">> -> <<"Formula Calculation">>
      [] cmd = <<"TD">> -> <<"Time Delay">>
      [] cmd = <<"PMsg">> -> <<"User Message">>
      [] cmd = <<"Fr(P)">> -> <<"Force at Position">>
      [] cmd = <<"FL(P)">> -> <<"Measure Free Length">>
      [] cmd = <<"Scrag">> -> <<"Scragging">>
      [] cmd = <<"SR">> -> <<"Spring Rate">>
      [] cmd = <<"PkF">> -> <<"Measure Peak Force">>
      [] cmd = <<"PkP">> -> <<"Measure Peak Position">>
      [] cmd = <<"Po(F)">> -> <<"Position at Force">>
      [] cmd = <<"Po(PkF)">> -> <<"Position at Peak Force">>
      [] cmd = <<"Mv(F)">> -> <<"Move to Force">>
      [] cmd = <<"PUi">> -> <<"User Input">>

(* Python dicts: a sequence of <<key, value>> pairs with distinct keys, in  *)
(* insertion order.                                                         *)

DictSet(d, k, v) ==
    IF HasKey(d, k)
      THEN [i \in 1..Len(d) |-> IF d[i][1] = k THEN <<k, v>> ELSE d[i]]
      ELSE Append(d, <<k, v>>)

DictGet(d, k, default) == IF HasKey(d, k) THEN Get(d, k) ELSE default

RECURSIVE DictDel(_, _)
DictDel(d, k) ==
    IF d = <<>> THEN <<>>
    ELSE IF Head(d)[1] = k THEN Tail(d)
    ELSE <<Head(d)>> \o DictDel(Tail(d), k)

(* Characters the regular expressions of standardize_sequence_data tell     *)
(* apart; every other token is a run of other characters.                   *)
Digits == {"0", "1", "2", "3", "4", "5", "6", "7", "8", "9"}
IsDigit(tok) == tok \in Digits
At(s, i) == IF i \in 1..Len(s) THEN s[i] ELSE "<end>"

(* end of the longest \d+ that starts at i (s[i] is a digit) *)
DigitRunEnd(s, i) ==
    CHOOSE e \in i..Len(s) :
        /\ \A k \in i..e : IsDigit(s[k])
        /\ ~IsDigit(At(s, e + 1))

(* end of the match of \d+ that starts at i: the fraction is not matched *)
NumberEndIntegerOnly(s, i) == DigitRunEnd(s, i)

(* end of the match of \d+(?:\.\d+)? that starts at i (s[i] is a digit) *)
NumberEnd(s, i) ==
    LET e == DigitRunEnd(s, i)
    IN  IF At(s, e + 1) = "." /\ IsDigit(At(s, e + 2)) THEN DigitRunEnd(s, e + 2) ELSE e

(* \((\d+(?:\.\d+)?),(\d+(?:\.\d+)?)\) matches at j *)
MinMaxAt(s, j) ==
    /\ At(s, j) = "("
    /\ IsDigit(At(s, j + 1))
    /\ At(s, NumberEnd(s, j + 1) + 1) = ","
    /\ IsDigit(At(s, NumberEnd(s, j + 1) + 2))
    /\ At(s, NumberEnd(s, NumberEnd(s, j + 1) + 2) + 1) = ")"

(* re.match(r'.*?(\d+(?:\.\d+)?).*?\((\d+(?:\.\d+)?),(\d+(?:\.\d+)?)\)', s): *)
(* the first digit that has a (min,max) pair somewhere after it starts the  *)
(* nominal number; the pair is the first one after that number.             *)
ToleranceMatches(s) ==
    \E i \in 1..Len(s) : IsDigit(s[i]) /\ \E j \in (i + 1)..Len(s) : MinMaxAt(s, j)

ToleranceGroups(s) ==
    LET i == CHOOSE i \in 1..Len(s) :
                /\ IsDigit(s[i]) /\ \E j \in (i + 1)..Len(s) : MinMaxAt(s, j)
                /\ \A h \in 1..(i - 1) :
                      ~(IsDigit(s[h]) /\ \E j \in (h + 1)..Len(s) : MinMaxAt(s, j))
        e == NumberEnd(s, i)
        j == CHOOSE j \in (e + 1)..Len(s) :
                MinMaxAt(s, j) /\ \A h \in (e + 1)..(j - 1) : ~MinMaxAt(s, h)
        e1 == NumberEnd(s, j + 1)
        e2 == NumberEnd(s, e1 + 2)
    IN  [nominal |-> SubSeq(s, i, e),
         min_val |-> SubSeq(s, j + 1, e1),
         max_val |-> SubSeq(s, e1 + 2, e2)]

(* "nominal" in tolerance_str, without the lower() *)
ContainsNominalCaseSensitive(s) == \E i \in 1..Len(s) : s[i] = "nominal"

(* "nominal" in tolerance_str.lower() *)
ContainsNominal(s) == \E i \in 1..Len(s) : s[i] \in {"nominal", "Nominal", "NOMINAL"}

(* lines 237-244 *)
FormatTolerance(s) ==
    IF ContainsNominal(s) /\ ToleranceMatches(s)
      THEN LET g == ToleranceGroups(s)
           IN  g.nominal \o <<"(">> \o g.min_val \o <<",">> \o g.max_val \o <<")">>
      ELSE s

(* re.match(r'^R\d+,\d+$', s) *)
IsScragReference(s) ==
    /\ At(s, 1) = "R"
    /\ IsDigit(At(s, 2))
    /\ At(s, DigitRunEnd(s, 2) + 1) = ","
    /\ IsDigit(At(s, DigitRunEnd(s, 2) + 2))
    /\ DigitRunEnd(s, DigitRunEnd(s, 2) + 2) = Len(s)

(* lines 247-253 *)
StripConditionUnits(s) ==
    IF ~IsScragReference(s) /\ IsDigit(At(s, 1)) /\ SubSeq(s, 1, NumberEnd(s, 1)) # s
      THEN SubSeq(s, 1, NumberEnd(s, 1))
      ELSE s

(* "L1" in current_desc *)
Contains(text, tok) == \E i \in 1..Len(text) : text[i] = tok

(* lines 211-213 *)
RECURSIVE NormalizeKeys(_, _)
NormalizeKeys(std_row, row) ==
    IF row = <<>> THEN std_row
    ELSE NormalizeKeys(DictSet(std_row, column_map(Head(row)[1]), Head(row)[2]), Tail(row))

(* lines 216-218 *)
UppercaseCmd(std_row) ==
    IF HasKey(std_row, "cmd")
      THEN DictDel(DictSet(std_row, "CMD", Get(std_row, "cmd")), "cmd")
      ELSE std_row

(* description_map.get(cmd, current_desc) *)
DescriptionFor(cmd, current_desc) ==
    IF cmd \in description_map_keys THEN description_map(cmd) ELSE current_desc

(* lines 221-234 with the L2 test ahead of the L1 test *)
CanonicalDescriptionL2First(std_row) ==
    IF HasKey(std_row, "CMD")
      THEN LET cmd == Get(std_row, "CMD")
               current_desc == DictGet(std_row, "Description", EmptyStr)
           IN  IF cmd = <<"Mv(P)">> /\ current_desc # EmptyStr
                 THEN IF Contains(current_desc, "L2")
                        THEN DictSet(std_row, "Description", <<"L2">>)
                      ELSE IF Contains(current_desc, "L1")
                        THEN DictSet(std_row, "Description", <<"L1">>)
                      ELSE DictSet(std_row, "Description", DescriptionFor(cmd, current_desc))
                 ELSE DictSet(std_row, "Description", DescriptionFor(cmd, current_desc))
      ELSE std_row

(* lines 221-234 *)
CanonicalDescription(std_row) ==
    IF HasKey(std_row, "CMD")
      THEN LET cmd == Get(std_row, "CMD")
               current_desc == DictGet(std_row, "Description", EmptyStr)
           IN  IF cmd = <<"Mv(P)">> /\ current_desc # EmptyStr
                 THEN IF Contains(current_desc, "L1")
                        THEN DictSet(std_row, "Description", <<"L1">>)
                      ELSE IF Contains(current_desc, "L2")
                        THEN DictSet(std_row, "Description", <<"L2">>)
                      ELSE DictSet(std_row, "Description", DescriptionFor(cmd, current_desc))
                 ELSE DictSet(std_row, "Description", DescriptionFor(cmd, current_desc))
      ELSE std_row

(* lines 237-244 *)
CanonicalTolerance(std_row) ==
    IF HasKey(std_row, "Tolerance") /\ Get(std_row, "Tolerance") # EmptyStr
      THEN DictSet(std_row, "Tolerance", FormatTolerance(Get(std_row, "Tolerance")))
      ELSE std_row

(* lines 247-253 *)
CanonicalCondition(std_row) ==
    IF HasKey(std_row, "Condition") /\ Get(std_row, "Condition") # EmptyStr
      THEN DictSet(std_row, "Condition", StripConditionUnits(Get(std_row, "Condition")))
      ELSE std_row

(* lines 256-258 *)
RECURSIVE AddMissingKeys(_, _)
AddMissingKeys(std_row, cols) ==
    IF cols = <<>> THEN std_row
    ELSE AddMissingKeys(IF HasKey(std_row, Head(cols)) THEN std_row
                        ELSE Append(std_row, <<Head(cols), EmptyStr>>),
                        Tail(cols))

(* the body of the loop over the rows, lines 207-261 *)
StandardizeRow(row) ==
    AddMissingKeys(
        CanonicalCondition(
            CanonicalTolerance(
                CanonicalDescription(
                    UppercaseCmd(NormalizeKeys(<<>>, row))))),
        required_columns)

standardize_sequence_data(rows) == [i \in 1..Len(rows) |-> StandardizeRow(rows[i])]

----------------------------------------------------------------------------
(* Vocabulary used to state the properties of the returned table.          *)

Returned == outcome = "returned"

(* the response text after step 1 (code fences removed, trimmed) *)
CleanedText == CleanResponse(response_text)

HasBothMarkers ==
    /\ \E i \in 1..Len(CleanedText) : CleanedText[i] = sequence_data_start
    /\ \E i \in 1..Len(CleanedText) : CleanedText[i] = sequence_data_end

Bracketed ==
    /\ CleanedText # <<>>
    /\ CleanedText[1] = "["
    /\ CleanedText[Len(CleanedText)] = "]"

FirstStart == IndexOf(CleanedText, sequence_data_start)
FirstEnd == IndexOf(CleanedText, sequence_data_end)

(* exactly one start marker, then exactly one end marker *)
WellFormedHybrid ==
    /\ HasBothMarkers
    /\ Cardinality({i \in 1..Len(CleanedText) : CleanedText[i] = sequence_data_start}) = 1
    /\ Cardinality({i \in 1..Len(CleanedText) : CleanedText[i] = sequence_data_end}) = 1
    /\ FirstStart < FirstEnd

TextBefore == Strip(SubSeq(CleanedText, 1, FirstStart - 1))
TextBetween == Strip(SubSeq(CleanedText, FirstStart + 1, FirstEnd - 1))
TextAfter == Strip(SubSeq(CleanedText, FirstEnd + 1, Len(CleanedText)))

(* the candidate JSON payload of step 2, for a well-formed hybrid or a      *)
(* bracketed text                                                          *)
Candidate == IF WellFormedHybrid THEN TextBetween ELSE CleanedText

HasCandidate == WellFormedHybrid \/ (~HasBothMarkers /\ Bracketed)

CandidateParses == HasCandidate /\ json_loads(Candidate).ok

(* the candidate is a JSON array of row objects *)
CandidateIsRowArray ==
    /\ CandidateParses
    /\ json_loads(Candidate).kind = "arr"
    /\ \A i \in 1..Len(json_loads(Candidate).items) :
          json_loads(Candidate).items[i] \in ObjectTokens

CandidateRows == json_loads(Candidate).items

HasColumn(col) == \E j \in 1..Len(df.columns) : df.columns[j] = col

IsChatRow(i) ==
    /\ HasColumn("Row") /\ HasColumn("CMD")
    /\ Cell(df, i, "Row") = ChatCell
    /\ Cell(df, i, "CMD") = ChatCell

ChatRows == {i \in 1..Len(df.rows) : IsChatRow(i)}
DataRows == {i \in 1..Len(df.rows) : ~IsChatRow(i)}

(* the table is one chat row with the given description and nothing else *)
IsSingleChatRow(description) ==
    /\ Len(df.rows) = 1
    /\ IsChatRow(1)
    /\ HasColumn("Description")
    /\ Cell(df, 1, "Description") = description

----------------------------------------------------------------------------
(* Properties of the response normaliser (specification Spec).              *)

(* C1: normalisation never raises and always returns a table; when the      *)
(* candidate JSON payload cannot be parsed the table is exactly one chat    *)
(* row whose description is the full response text.                         *)
C1_NormalizationTotal ==
    /\ outcome # "raised"
    /\ (Returned /\ HasCandidate /\ ~CandidateParses) => IsSingleChatRow(CleanedText)

(* C2: every row of every returned table has exactly the seven canonical    *)
(* fields, in the canonical order, and no cell holds a missing value.       *)
C2_SevenFields ==
    Returned =>
        /\ df.columns = required_columns
        /\ \A i \in 1..Len(df.rows) : \A j \in 1..Len(df.rows[i]) : df.rows[i][j] # NaN

(* C3: a returned table has at most one chat row, and a chat row is the     *)
(* first row, whatever rows the JSON payload contains.                      *)
C3_ChatRowFirst ==
    Returned => \A i \in ChatRows : i = 1

(* the rows of the payload use Cmd and Speed and give no Description *)
UsesCmdAndSpeed(tok) ==
    /\ HasKey(JsonObject(tok), "Cmd") /\ ~HasKey(JsonObject(tok), "CMD")
    /\ HasKey(JsonObject(tok), "Speed") /\ ~HasKey(JsonObject(tok), "Speed rpm")
    /\ ~HasKey(JsonObject(tok), "Description")

ScenarioC ==
    /\ WellFormedHybrid
    /\ TextBefore # <<>> /\ TextAfter # <<>>
    /\ CandidateIsRowArray
    /\ CandidateRows # <<>>
    /\ \A k \in 1..Len(CandidateRows) : UsesCmdAndSpeed(CandidateRows[k])

(* C4: for a hybrid response whose rows use Cmd and Speed and carry no      *)
(* Description, the table has after the chat row one data row per JSON row, *)
(* with CMD the value given under Cmd, Speed rpm the value given under      *)
(* Speed and Description the standard description of the command.           *)
C4_HybridRowsCanonical ==
    (Returned /\ ScenarioC) =>
        /\ Len(df.rows) = Len(CandidateRows) + 1
        /\ \A k \in 1..Len(CandidateRows) :
              LET obj == JsonObject(CandidateRows[k])
              IN  /\ Cell(df, k + 1, "CMD") = Get(obj, "Cmd")
                  /\ Cell(df, k + 1, "Speed rpm") = Get(obj, "Speed")
                  /\ Cell(df, k + 1, "Description") = description_map(Get(obj, "Cmd"))

(* the conversational text of step 2: the non-empty ones of the trimmed     *)
(* text before the start marker and the trimmed text after the end marker,  *)
(* joined with one blank line                                               *)
JoinedConversation ==
    IF TextBefore # <<>> /\ TextAfter # <<>>
      THEN TextBefore \o <<BlankLine>> \o TextAfter
    ELSE IF TextAfter = <<>> THEN TextBefore
    ELSE TextAfter

(* C5: for a response with both markers the conversational text is          *)
(* before + blank line + after when both are non-empty, before alone when   *)
(* after is empty, after alone when before is empty.                        *)
C5_ConversationJoin ==
    (Returned /\ WellFormedHybrid /\ CandidateIsRowArray) =>
        /\ IsChatRow(1)
        /\ Cell(df, 1, "Description") = JoinedConversation

ExtractedConversation == IF WellFormedHybrid THEN JoinedConversation ELSE <<>>

(* C6: when the payload parses, the table has a chat row iff conversational *)
(* text was extracted; then exactly one chat row, carrying that text,       *)
(* precedes the data rows.  Stated for payloads that hold no sentinel row   *)
(* of their own.                                                            *)
C6_ChatRowIffConversation ==
    (Returned /\ CandidateIsRowArray /\ CandidateRows # <<>>
              /\ \A k \in 1..Len(CandidateRows) : CandidateRows[k] # "{chat}") =>
        IF ExtractedConversation = <<>>
          THEN ChatRows = {}
          ELSE /\ ChatRows = {1}
               /\ Cell(df, 1, "Description") = ExtractedConversation

(* C7: a response text that does not contain both markers and is not        *)
(* bracketed gives exactly one chat row whose description is that text, and *)
(* no data rows.                                                            *)
C7_ConversationalOnly ==
    (Returned /\ ~HasBothMarkers /\ ~Bracketed) => IsSingleChatRow(CleanedText)

C7_Witness ==
    /\ Returned /\ ~HasBothMarkers /\ ~Bracketed
    /\ CleanedText # <<>>
    /\ \E i \in 1..Len(CleanedText) : CleanedText[i] = sequence_data_start
    /\ \E i \in 1..Len(CleanedText) : CleanedText[i] = "["

(* the first top-level [...] span of a text with unnested brackets *)
HasSpan(text) ==
    \E i \in 1..Len(text) : text[i] = "[" /\ \E j \in (i+1)..Len(text) : text[j] = "]"

FirstSpan(text) ==
    LET i == IndexOf(text, "[")
        j == CHOOSE j \in (i+1)..Len(text) :
                text[j] = "]" /\ \A m \in (i+1)..(j-1) : text[m] # "]"
    IN  SubSeq(text, i, j)

SpanIsRowArray ==
    /\ HasCandidate /\ ~CandidateParses
    /\ HasSpan(Candidate)
    /\ json_loads(FirstSpan(Candidate)).ok
    /\ json_loads(FirstSpan(Candidate)).items # <<>>
    /\ \A i \in 1..Len(json_loads(FirstSpan(Candidate)).items) :
          json_loads(FirstSpan(Candidate)).items[i] \in ObjectTokens

(* C8: when the candidate payload fails to parse as a whole but its first   *)
(* top-level [...] span is a valid JSON array, the rows of that array are   *)
(* returned as data rows.                                                   *)
C8_RetryOnSpan ==
    (Returned /\ SpanIsRowArray) =>
        LET items == json_loads(FirstSpan(Candidate)).items
        IN  /\ Cardinality(DataRows) = Len(items)
            /\ \A i \in DataRows : HasColumn("Row")

----------------------------------------------------------------------------
(* standardize_sequence_data on its own (specification SpecStd).            *)

MaxDataRows == 2        \* rows of the list given to standardize_sequence_data

RowLabel == << <<"Row", <<"R00">>>> >>

CmdKeys == {"CMD", "Cmd", "Command", "cmd"}
CmdValues == {<<"ZF">>, <<"Mv(P)">>, <<"ZD">>, <<"TH">>, <<"XX">>}
DescriptionValues ==
    { <<>>, <<"foo">>, <<"Move to ", "L1">>, <<"L2", " position">>,
      <<"L2", " then ", "L1">> }
ConditionValues ==
    { <<>>, <<"4", "0">>, <<"4", "0", "mm">>, <<"4", "0", " ", "mm">>,
      <<"4", "0", ".", "5", "mm">>, <<"R", "0", "3", ",", "2">>,
      <<"Test Completed">>, <<"4", ".", "5", ".", "6">> }
ToleranceValues ==
    { <<>>, <<"5", "0", "(", "4", "0", ",", "6", "0", ")">>,
      <<"nominal", "(", "4", "0", ",", "6", "0", ")">>,
      <<"nominal", " ", "5", "0", "(", "4", "0", ",", "6", "0", ")">>,
      <<"5", "0", " ", "Nominal", " ", "(", "4", "0", ",", "6", "0", ".", "5", ")">>,
      <<"nominal", " ", "5", "0">>,
      <<"NOMINAL", " ", "5", "0", "(", "4", "0", ",", "6", "0", ")", " ", "N">>,
      <<"nominal", " ", "5", "0", " ", "(", "4", "0", ",", " ", "6", "0", ")">> }

(* rows that vary the command key, the command and the description *)
CommandRows ==
    { RowLabel \o << <<k, c>> >> : k \in CmdKeys, c \in CmdValues }
    \cup { RowLabel \o << <<"CMD", c>>, <<"Description", d>> >> :
              c \in CmdValues, d \in DescriptionValues }
    \cup { RowLabel \o << <<"Description", d>> >> : d \in {<<>>, <<"foo">>} }

(* rows that vary the condition, the tolerance, the unit and the speed *)
ValueRows ==
    { RowLabel \o << <<"CMD", <<"ZF">>>>, <<"Condition", v>> >> : v \in ConditionValues }
    \cup { RowLabel \o << <<"CMD", <<"ZF">>>>, <<"Tolerance", v>> >> : v \in ToleranceValues }
    \cup { RowLabel \o << <<k, <<"mm">>>> >> : k \in {"Unit", "Units", "unit"} }
    \cup { RowLabel \o << <<k, <<"5", "0">>>> >> : k \in {"Speed", "Speed rpm"} }

(* rows that give a column under two keys *)
CollisionRows ==
    { RowLabel \o << <<"Cmd", <<"ZF">>>>, <<"CMD", <<>>>> >>,
      RowLabel \o << <<"CMD", <<"TH">>>>, <<"Command", <<"ZF">>>> >>,
      RowLabel \o << <<"Speed", <<"5", "0">>>>, <<"Speed rpm", <<>>>> >> }

InputRows == CommandRows \cup ValueRows \cup CollisionRows

DataLists == UNION {[1..n -> InputRows] : n \in 0..MaxDataRows}

InitStd ==
    /\ data \in DataLists
    /\ standardized_data = <<>>
    /\ std_done = FALSE
    /\ restandardized_data = <<>>
    /\ restd_done = FALSE
    /\ response_text = <<>>
    /\ df = NoTable
    /\ outcome = "idle"
    /\ NoPanel
    /\ NoLate

Standardize ==
    /\ ~std_done
    /\ standardized_data' = standardize_sequence_data(data)
    /\ std_done' = TRUE
    /\ UNCHANGED <<data, restandardized_data, restd_done, response_text, df, outcome>>
    /\ UNCHANGED parser_vars
    /\ UNCHANGED late_vars

(* the table is serialised again and standardised again *)
Restandardize ==
    /\ std_done
    /\ ~restd_done
    /\ restandardized_data' = standardize_sequence_data(standardized_data)
    /\ restd_done' = TRUE
    /\ UNCHANGED <<data, standardized_data, std_done, response_text, df, outcome>>
    /\ UNCHANGED parser_vars
    /\ UNCHANGED late_vars

NextStd == Standardize \/ Restandardize

SpecStd == InitStd /\ [][NextStd]_vars

----------------------------------------------------------------------------
(* Properties of column and description canonicalisation.                  *)

SynonymsOf(col) ==
    CASE col = "CMD" -> {"Cmd", "Command", "cmd"}
      [] col = "Speed rpm" -> {"Speed"}
      [] col = "Unit" -> {"Units", "unit"}
      [] OTHER -> {}

(* the rows of the JSON payload of a response whose payload is an array of  *)
(* row objects, and the index of the first data row in the returned table   *)
FirstDataRow == IF HasBothMarkers THEN 2 ELSE 1

(* C9: a value supplied under a synonym key (Cmd, Command, cmd; Speed;      *)
(* Units, unit) is the value of the canonical column (CMD, Speed rpm, Unit) *)
(* of the normalised row; it is never replaced by the empty string.         *)
C9_SynonymValueKept ==
    (Returned /\ CandidateIsRowArray) =>
        \A k \in 1..Len(CandidateRows) :
            \A col \in {"CMD", "Speed rpm", "Unit"} :
                \A key \in SynonymsOf(col) :
                    (/\ HasKey(JsonObject(CandidateRows[k]), key)
                     /\ \A other \in (SynonymsOf(col) \cup {col}) \ {key} :
                           ~HasKey(JsonObject(CandidateRows[k]), other))
                    => Cell(df, FirstDataRow + k - 1, col)
                          = Get(JsonObject(CandidateRows[k]), key)

(* the standard description of a vocabulary command: the entry of the      *)
(* description map, or of COMMANDS for a command the map does not list      *)
StandardDescription(cmd) ==
    IF cmd \in description_map_keys THEN description_map(cmd) ELSE COMMANDS(cmd)

MovePositionDescription(given) ==
    IF \E n \in 1..Len(given) : given[n] = "L1" THEN <<"L1">>
    ELSE IF \E n \in 1..Len(given) : given[n] = "L2" THEN <<"L2">>
    ELSE <<"Move to Position">>

(* C10 as stated: after description canonicalisation a row whose command    *)
(* belongs to the command vocabulary has the standard description of the    *)
(* command, whatever the input gave; a Mv(P) row has "L1" if the input      *)
(* description contains L1, "L2" if it contains L2, "Move to Position"      *)
(* otherwise.                                                               *)
C10_StandardDescription ==
    std_done =>
        \A i \in 1..Len(data) :
            (HasKey(standardized_data[i], "CMD")
             /\ Get(standardized_data[i], "CMD") \in COMMANDS_keys) =>
                LET cmd == Get(standardized_data[i], "CMD")
                    given == DictGet(data[i], "Description", EmptyStr)
                    desc == Get(standardized_data[i], "Description")
                IN  IF cmd = <<"Mv(P)">>
                      THEN desc = MovePositionDescription(given)
                      ELSE desc = StandardDescription(cmd)

(* C10 amended: a row whose command is one of the eight commands of the     *)
(* description map has the description of the map, whatever the input gave, *)
(* except that a Mv(P) row has "L1" if the input description contains L1,   *)
(* otherwise "L2" if it contains L2, otherwise "Move to Position"; a row    *)
(* with any other command keeps the description the input gave (the empty   *)
(* string if it gave none).                                                 *)
C10_MappedDescription ==
    std_done =>
        \A i \in 1..Len(data) :
            HasKey(standardized_data[i], "CMD") =>
                LET cmd == Get(standardized_data[i], "CMD")
                    given == DictGet(data[i], "Description", EmptyStr)
                    desc == Get(standardized_data[i], "Description")
                IN  IF cmd = <<"Mv(P)">> THEN desc = MovePositionDescription(given)
                    ELSE IF cmd \in { <<"ZF">>, <<"TH">>, <<"FL(P)">>, <<"Fr(P)">>,
                                      <<"Scrag">>, <<"TD">>, <<"PMsg">> }
                      THEN desc = StandardDescription(cmd)
                    ELSE desc = given

C10_Witness ==
    /\ std_done
    /\ Len(data) = 2
    /\ Get(standardized_data[1], "CMD") = <<"Mv(P)">>
    /\ DictGet(data[1], "Description", EmptyStr) = <<"L2", " then ", "L1">>
    /\ Get(standardized_data[2], "CMD") = <<"ZD">>
    /\ DictGet(data[2], "Description", EmptyStr) = <<"foo">>

----------------------------------------------------------------------------
(* Properties of tolerance reformatting, unit stripping and idempotence.    *)

(* the value the input row gives under a key, the empty string if none *)
Given(i, key) == DictGet(data[i], key, EmptyStr)

HasNominalWord(t) == \E k \in 1..Len(t) : t[k] \in {"nominal", "Nominal", "NOMINAL"}

(* t is a number: digits with at most one point, which has digits on both sides *)
IsNumber(t) ==
    /\ t # <<>>
    /\ \A k \in 1..Len(t) : IsDigit(t[k]) \/ t[k] = "."
    /\ IsDigit(t[1]) /\ IsDigit(t[Len(t)])
    /\ Cardinality({k \in 1..Len(t) : t[k] = "."}) <= 1

(* t[j..e] is a pair "(min,max)" of two numbers, written without spaces *)
IsPair(t, j, e) ==
    /\ j < e /\ e <= Len(t)
    /\ t[j] = "(" /\ t[e] = ")"
    /\ \E c \in (j + 1)..(e - 1) :
          /\ t[c] = ","
          /\ IsNumber(SubSeq(t, j + 1, c - 1))
          /\ IsNumber(SubSeq(t, c + 1, e - 1))

HasPair(t) == \E j, e \in 1..Len(t) : IsPair(t, j, e)

(* t is "<nominal>(<min>,<max>)" *)
IsCanonicalTolerance(t) ==
    \E j \in 2..Len(t) : IsNumber(SubSeq(t, 1, j - 1)) /\ IsPair(t, j, Len(t))

(* C11 as stated: after tolerance reformatting a tolerance value that       *)
(* contained the word "nominal" together with a (min,max) pair has the form *)
(* <nominal>(<min>,<max>) and no longer contains the word "nominal"; a      *)
(* value without the word "nominal" is unchanged.                           *)
C11_NominalReformatted ==
    std_done =>
        \A i \in 1..Len(data) :
            LET t == Given(i, "Tolerance")
                out == Get(standardized_data[i], "Tolerance")
            IN  /\ (HasNominalWord(t) /\ HasPair(t)) =>
                      (IsCanonicalTolerance(out) /\ ~HasNominalWord(out))
                /\ ~HasNominalWord(t) => out = t

(* the number that starts at the first digit of t that has a pair after it, *)
(* and the first pair after that number                                     *)
NominalStart(t) ==
    CHOOSE i \in 1..Len(t) :
        /\ IsDigit(t[i]) /\ \E j, e \in (i + 1)..Len(t) : IsPair(t, j, e)
        /\ \A h \in 1..(i - 1) :
              ~(IsDigit(t[h]) /\ \E j, e \in (h + 1)..Len(t) : IsPair(t, j, e))

LongestNumberFrom(t, i) ==
    CHOOSE e \in i..Len(t) :
        /\ IsNumber(SubSeq(t, i, e))
        /\ \A f \in (e + 1)..Len(t) : ~IsNumber(SubSeq(t, i, f))

FirstPairAfter(t, e) ==
    CHOOSE p \in ((e + 1)..Len(t)) \X ((e + 1)..Len(t)) :
        /\ IsPair(t, p[1], p[2])
        /\ \A j \in (e + 1)..(p[1] - 1), f \in 1..Len(t) : ~IsPair(t, j, f)

HasNumberBeforePair(t) ==
    \E i \in 1..Len(t) : IsDigit(t[i]) /\ \E j, e \in (i + 1)..Len(t) : IsPair(t, j, e)

(* C11 amended: a tolerance value that contains the word "nominal" (in any  *)
(* case) and a number followed, somewhere later, by a pair "(min,max)"      *)
(* becomes that number followed by that pair, and nothing else; every other *)
(* tolerance value is unchanged, "nominal(40,60)" included.                 *)
C11_NominalWithNumber ==
    std_done =>
        \A i \in 1..Len(data) :
            LET t == Given(i, "Tolerance")
                out == Get(standardized_data[i], "Tolerance")
            IN  IF HasNominalWord(t) /\ HasNumberBeforePair(t)
                  THEN LET n == NominalStart(t)
                           e == LongestNumberFrom(t, n)
                           p == FirstPairAfter(t, e)
                       IN  /\ out = SubSeq(t, n, e) \o SubSeq(t, p[1], p[2])
                           /\ IsCanonicalTolerance(out)
                           /\ ~HasNominalWord(out)
                  ELSE out = t

C11_Witness ==
    /\ std_done
    /\ Len(data) = 2
    /\ Given(1, "Tolerance")
          = <<"5", "0", " ", "Nominal", " ", "(", "4", "0", ",", "6", "0", ".", "5", ")">>
    /\ Get(standardized_data[1], "Tolerance")
          = <<"5", "0", "(", "4", "0", ",", "6", "0", ".", "5", ")">>
    /\ Given(2, "Tolerance") = <<"nominal", "(", "4", "0", ",", "6", "0", ")">>
    /\ Get(standardized_data[2], "Tolerance") = Given(2, "Tolerance")

(* the longest number t starts with, the empty text if it starts with none *)
LeadingNumber(t) ==
    IF \E e \in 1..Len(t) : IsNumber(SubSeq(t, 1, e))
      THEN SubSeq(t, 1, LongestNumberFrom(t, 1))
      ELSE <<>>

(* a row label, a comma, digits: "R03,2" *)
IsBackReference(t) ==
    \E c \in 3..(Len(t) - 1) :
        /\ t[1] = "R" /\ t[c] = ","
        /\ \A k \in (2..Len(t)) \ {c} : IsDigit(t[k])

(* C12: after unit stripping a condition that starts with a number followed *)
(* by other text is that number alone; a back-reference such as "R03,2", a  *)
(* condition that is a number and a condition that does not start with a    *)
(* number are unchanged.                                                    *)
C12_ConditionUnitsStripped ==
    std_done =>
        \A i \in 1..Len(data) :
            LET t == Given(i, "Condition")
                out == Get(standardized_data[i], "Condition")
            IN  IF IsBackReference(t) \/ IsNumber(t) \/ LeadingNumber(t) = <<>>
                  THEN out = t
                  ELSE out = LeadingNumber(t)

C12_Witness ==
    /\ std_done
    /\ Len(data) = 2
    /\ Given(1, "Condition") = <<"4", "0", ".", "5", "mm">>
    /\ Get(standardized_data[1], "Condition") = <<"4", "0", ".", "5">>
    /\ Given(2, "Condition") = <<"R", "0", "3", ",", "2">>
    /\ Get(standardized_data[2], "Condition") = Given(2, "Condition")

(* C13: standardising a table that standardize_sequence_data produced       *)
(* returns the same table: same keys in the same order, same descriptions,  *)
(* tolerances and conditions.                                               *)
C13_Idempotent == restd_done => restandardized_data = standardized_data

C13_Witness ==
    /\ restd_done
    /\ Len(data) = 2
    /\ \E k \in 1..Len(data[1]) : data[1][k][1] = "Command"
    /\ Given(2, "Tolerance") = <<"nominal", " ", "5", "0", "(", "4", "0", ",", "6", "0", ")">>
    /\ standardized_data # data
    /\ restandardized_data = standardized_data

----------------------------------------------------------------------------
(* Specification text: the text typed or pasted into the specifications     *)
(* panel, sent as a chat message, or extracted from a PDF file.  A word, a  *)
(* digit and a punctuation character are one token each; SP is one blank    *)
(* and NL one newline.                                                      *)

SP == " "
NL == "<nl>"
IsSpace(tok) == tok \in {SP, NL}
IsNumChar(tok) == IsDigit(tok) \/ tok = "."

(* str.lower() of a token *)
Lower(tok) ==
    CASE tok = "Set" -> "set"          [] tok = "Point" -> "point"
      [] tok = "Poni" -> "poni"        [] tok = "Poit" -> "poit"
      [] tok = "Load" -> "load"        [] tok = "In" -> "in"
      [] tok = "N" -> "n"              [] tok = "Part" -> "part"
      [] tok = "Name" -> "name"        [] tok = "Number" -> "number"
      [] tok = "ID" -> "id"            [] tok = "Free" -> "free"
      [] tok = "Length" -> "length"    [] tok = "No" -> "no"
      [] tok = "Coils" -> "coils"      [] tok = "Wire" -> "wire"
      [] tok = "Dia" -> "dia"          [] tok = "OD" -> "od"
      [] tok = "Safety" -> "safety"    [] tok = "Demo" -> "demo"
      [] tok = "Spring" -> "spring"    [] OTHER -> tok

(* the words of the texts that have the letter l in them *)
HasLetterL(tok) == Lower(tok) \in {"load", "length", "coils", "colis", "limit", "hello"}

(* the words of the texts that start with Part, ID, Free, No, Wire, OD, Set *)
(* or Safety, in any case                                                   *)
StartsWithKeyword(tok) ==
    Lower(tok) \in {"part", "id", "free", "no", "wire", "wired", "od", "set", "safety"}

Min(S) == CHOOSE x \in S : \A y \in S : x <= y

(* the end of \s* that starts at i: the first index from i on whose token   *)
(* is not white space                                                       *)
RECURSIVE SkipSpace(_, _)
SkipSpace(s, i) == IF i <= Len(s) /\ IsSpace(s[i]) THEN SkipSpace(s, i + 1) ELSE i

(* the last token of the match of [\d.]+ that starts at i *)
RECURSIVE NumRunEnd(_, _)
NumRunEnd(s, i) == IF IsNumChar(At(s, i + 1)) THEN NumRunEnd(s, i + 1) ELSE i

(* the last token of the match of \d+ that starts at i *)
RECURSIVE DigitsEnd(_, _)
DigitsEnd(s, i) == IF IsDigit(At(s, i + 1)) THEN DigitsEnd(s, i + 1) ELSE i

(* words separated by \s+, each word one of a set of spellings, matched at  *)
(* i without regard to case; the index after the last word, 0 if no match   *)
RECURSIVE WordsAt(_, _, _)
WordsAt(s, i, words) ==
    IF Lower(At(s, i)) \notin Head(words) THEN 0
    ELSE IF Len(words) = 1 THEN i + 1
    ELSE IF ~IsSpace(At(s, i + 1)) THEN 0
    ELSE WordsAt(s, SkipSpace(s, i + 1), Tail(words))

(* the same with one blank between the words, as a pattern "Free Length" *)
RECURSIVE WordsAtBlank(_, _, _)
WordsAtBlank(s, i, words) ==
    IF Lower(At(s, i)) \notin Head(words) THEN 0
    ELSE IF Len(words) = 1 THEN i + 1
    ELSE IF At(s, i + 1) # SP THEN 0
    ELSE WordsAtBlank(s, i + 2, Tail(words))

(* the indices of a sequence, in order *)
Indices(s) == [i \in 1..Len(s) |-> i]

(* the elements of a sequence in the order of their first appearance, each  *)
(* once                                                                     *)
DistinctInOrder(seq) ==
    LET Taken(kept) == [k \in 1..Len(kept) |-> seq[kept[k]]]
    IN  Taken(SelectSeq(Indices(seq), LAMBDA k : \A j \in 1..(k - 1) : seq[j] # seq[k]))

(* re.sub(r'\s+', ' ', text).strip(): of every run of white space the last  *)
(* token is kept, as one blank                                              *)
CollapseSpace(s) ==
    LET Collapsed(kept) ==
            [k \in 1..Len(kept) |-> IF IsSpace(s[kept[k]]) THEN SP ELSE s[kept[k]]]
    IN  Collapsed(SelectSeq(Indices(s), LAMBDA i : ~(IsSpace(s[i]) /\ IsSpace(At(s, i + 1)))))

StripSpace(s) ==
    LET first == SkipSpace(s, 1)
        last == IF \E i \in 1..Len(s) : ~IsSpace(s[i])
                  THEN CHOOSE i \in 1..Len(s) :
                          ~IsSpace(s[i]) /\ \A k \in (i + 1)..Len(s) : IsSpace(s[k])
                  ELSE 0
    IN  SubSeq(s, first, last)

(* Numbers.  A float is kept as a whole number of hundredths; the texts     *)
(* give at most Decimals digits after the point.                            *)
Decimals == 2

DigitValue(tok) ==
    CASE tok = "0" -> 0 [] tok = "1" -> 1 [] tok = "2" -> 2 [] tok = "3" -> 3
      [] tok = "4" -> 4 [] tok = "5" -> 5 [] tok = "6" -> 6 [] tok = "7" -> 7
      [] tok = "8" -> 8 [] tok = "9" -> 9

RECURSIVE IntOf(_)
IntOf(v) ==
    IF v = <<>> THEN 0
    ELSE 10 * IntOf(SubSeq(v, 1, Len(v) - 1)) + DigitValue(v[Len(v)])

(* int(value) succeeds *)
IsIntText(v) == v # <<>> /\ \A i \in 1..Len(v) : IsDigit(v[i])

(* float(value) succeeds: digits with at most one point, "5." and ".5" too *)
IsFloatText(v) ==
    /\ \A i \in 1..Len(v) : IsNumChar(v[i])
    /\ \E i \in 1..Len(v) : IsDigit(v[i])
    /\ Cardinality({i \in 1..Len(v) : v[i] = "."}) <= 1

FloatOf(v) ==
    LET point == IF \E i \in 1..Len(v) : v[i] = "."
                   THEN CHOOSE i \in 1..Len(v) : v[i] = "." ELSE Len(v) + 1
        fraction == SubSeq(v, point + 1, Len(v)) \o <<"0", "0">>
    IN  100 * IntOf(SubSeq(v, 1, point - 1)) + IntOf(SubSeq(fraction, 1, Decimals))

----------------------------------------------------------------------------
(* SpecificationsPanel.parse_specifications_text                            *)

NoMatch == [found |-> FALSE, value |-> <<>>, tolerance |-> <<>>]
Match(v, t) == [found |-> TRUE, value |-> v, tolerance |-> t]

(* lines 581-587: white space before a keyword becomes a newline, then      *)
(* every run of white space becomes one blank and the ends are stripped     *)
Preprocess(text) == StripSpace(CollapseSpace(text))

BasicKeys ==
    << "part_name", "part_number", "part_id", "free_length", "coil_count",
       "wire_dia", "outer_dia", "safety_limit" >>
TextKeys == {"part_name", "part_number"}

(* the label of each pattern of lines 590-599, as lower-case words *)
PanelLabel(key) ==
    CASE key = "part_name" -> << {"part", "spring"}, {"name"} >>
      [] key = "part_number" -> << {"part"}, {"number"} >>
      [] key = "part_id" -> << {"id"} >>
      [] key = "free_length" -> << {"free"}, {"length"} >>
      [] key = "coil_count" -> << {"no"}, {"of"}, {"coils", "colis"} >>
      [] key = "wire_dia" -> << {"wire", "wired"}, {"dia", "diameter"} >>
      [] key = "outer_dia" -> << {"od"} >>
      [] key = "safety_limit" -> << {"safety"}, {"limit"} >>

(* (?:^|\s+)LABEL:?\s* matches at i: the index where the value starts, 0 if *)
(* the label does not match at i                                            *)
PanelValueStart(s, i, key) ==
    LET After(e) ==
            IF (i = 1 \/ IsSpace(s[i - 1])) /\ e # 0
              THEN SkipSpace(s, IF At(s, e) = ":" THEN e + 1 ELSE e)
              ELSE 0
    IN  After(WordsAt(s, i, PanelLabel(key)))

(* the match of (.+?)(?:\s+(?:Part|ID|Free|No|Wire|OD|Set|Safety)|$) from v *)
LazyTextEnd(s, v) ==
    Min({q \in v..Len(s) :
            q = Len(s) \/ (IsSpace(s[q + 1]) /\ StartsWithKeyword(At(s, q + 2)))})

(* re.search of the pattern of a basic field in the preprocessed text *)
PanelBasicMatch(s, key) ==
    LET Starts(v) ==
            /\ v # 0
            /\ CASE key \in TextKeys -> v <= Len(s) \/ s[Len(s)] = ":"
                 [] key = "part_id" -> IsDigit(At(s, v))
                 [] OTHER -> IsNumChar(At(s, v))
        Captured(v) ==
            CASE key \in TextKeys ->
                   IF v <= Len(s) THEN Match(SubSeq(s, v, LazyTextEnd(s, v)), <<>>)
                   ELSE Match(<<":">>, <<>>)
              [] key = "part_id" -> Match(SubSeq(s, v, DigitsEnd(s, v)), <<>>)
              [] OTHER -> Match(SubSeq(s, v, NumRunEnd(s, v)), <<>>)
        First(hits) ==
            IF hits = {} THEN NoMatch ELSE Captured(PanelValueStart(s, Min(hits), key))
    IN  First({i \in 1..Len(s) : Starts(PanelValueStart(s, i, key))})

(* lines 602-619: the value of a matched field is converted to its type; a  *)
(* value that does not convert is skipped                                   *)
Converts(key, value) ==
    CASE key \in TextKeys -> TRUE
      [] key = "part_id" -> IsIntText(value)
      [] OTHER -> IsFloatText(value)

Converted(key, value) ==
    CASE key \in TextKeys -> value
      [] key = "part_id" -> IntOf(value)
      [] OTHER -> FloatOf(value)

(* lines 605-619: what one pattern adds to basic_info *)
PanelBasicEntry(s, key) ==
    LET Entry(m) ==
            IF m.found /\ Converts(key, m.value)
              THEN << <<key, Converted(key, m.value)>> >>
              ELSE <<>>
    IN  Entry(PanelBasicMatch(s, key))

RECURSIVE PanelBasicInfo(_, _)
PanelBasicInfo(s, keys) ==
    IF keys = <<>> THEN <<>>
    ELSE PanelBasicEntry(s, Head(keys)) \o PanelBasicInfo(s, Tail(keys))

(* Set\s+(?:Po(?:i|n)(?:i|t)|Poni)- matches at i: the index after the dash, *)
(* 0 if it does not match                                                   *)
PanelSetPointWords == {"poii", "poit", "poni", "pont"}

(* blank: the pattern has one blank after Set, as in the chat panel, and    *)
(* not \s+                                                                  *)
SetPointLabelAt(s, i, words, blank) ==
    LET Word(w) ==
            IF /\ Lower(At(s, i)) = "set"
               /\ IF blank THEN At(s, i + 1) = SP ELSE IsSpace(At(s, i + 1))
               /\ Lower(At(s, w)) \in words /\ At(s, w + 1) = "-"
              THEN w + 2 ELSE 0
    IN  Word(IF blank THEN i + 2 ELSE SkipSpace(s, i + 1))

(* str(int(digits)) *)
RECURSIVE StrOfInt(_)
StrOfInt(digits) ==
    IF Len(digits) > 1 /\ Head(digits) = "0" THEN StrOfInt(Tail(digits)) ELSE digits

(* lines 625-631: the indices of the set-point labels of the text, each     *)
(* once, in the order of their first appearance                             *)
SetPointIndices(s, words, blank) ==
    LET Digit(d) == d # 0 /\ IsDigit(At(s, d))
        IndexAt(d) == StrOfInt(SubSeq(s, d, DigitsEnd(s, d)))
        Found(at) ==
            DistinctInOrder([k \in 1..Len(at) |->
                                IndexAt(SetPointLabelAt(s, at[k], words, blank))])
    IN  Found(SelectSeq(Indices(s), LAMBDA i : Digit(SetPointLabelAt(s, i, words, blank))))

(* the label followed by str(index) matches at i: the index after the       *)
(* digits of the index, 0 if it does not match                              *)
IndexedLabelAt(s, i, words, blank, index) ==
    LET Index(d) ==
            IF d # 0 /\ d + Len(index) - 1 <= Len(s) /\ SubSeq(s, d, d + Len(index) - 1) = index
              THEN d + Len(index) ELSE 0
    IN  Index(SetPointLabelAt(s, i, words, blank))

(* (?:\s+in\s+mm)? at a: the index after it *)
AfterInMm(s, a) ==
    LET After(e) == IF IsSpace(At(s, a)) /\ e # 0 THEN e ELSE a
    IN  After(WordsAt(s, SkipSpace(s, a), << {"in"}, {"mm"} >>))

(* where the captured number of a position pattern starts when the pattern  *)
(* matches at i, 0 if it does not match; lines 638-642                      *)
PositionStart(s, i, index, n) ==
    LET Number(v) == IF IsNumChar(At(s, v)) THEN v ELSE 0
        First(ps) == IF ps = {} THEN 0 ELSE Min(ps)
        Value(a, b) ==
            CASE n = 1 -> Number(SkipSpace(s, IF At(s, b) = ":" THEN b + 1 ELSE b))
              [] n = 2 -> IF b # a THEN Number(SkipSpace(s, b)) ELSE 0
              [] n = 3 -> First({p \in (a + 1)..Len(s) :
                                    /\ IsNumChar(s[p])
                                    /\ \A q \in a..(p - 1) : ~HasLetterL(s[q])})
        Label(a) == IF a = 0 THEN 0 ELSE Value(a, AfterInMm(s, a))
    IN  Label(IndexedLabelAt(s, i, PanelSetPointWords, FALSE, index))

(* (?:±([\d.]+)%)? after the captured number that ends at r *)
ToleranceAfter(s, r, sign) ==
    LET Percent(t, e) ==
            IF /\ r + Len(sign) <= Len(s) /\ SubSeq(s, r + 1, r + Len(sign)) = sign
               /\ IsNumChar(At(s, t))
               /\ At(s, e + 1) = "%"
              THEN SubSeq(s, t, e)
              ELSE <<>>
    IN  Percent(r + Len(sign) + 1, NumRunEnd(s, r + Len(sign) + 1))

(* where the captured number of a load pattern starts; lines 656-660 *)
LoadStart(s, i, index, n) ==
    LET Number(v) == IF IsNumChar(At(s, v)) THEN v ELSE 0
        First(ps) == IF ps = {} THEN 0 ELSE Min(ps)
        AfterLoad(l) ==
            First({p \in (l + 1)..Len(s) :
                      /\ IsNumChar(s[p])
                      /\ \A q \in (l + 1)..(p - 1) : s[q] # ":"})
        Loads(ls) == IF ls = {} THEN 0 ELSE AfterLoad(Min(ls))
        Words(b) ==
            IF b # 0 THEN Number(SkipSpace(s, IF n = 1 /\ At(s, b) = ":" THEN b + 1 ELSE b))
            ELSE 0
        Label(a) ==
            IF a = 0 THEN 0
            ELSE CASE n \in {1, 2} ->
                       Words(IF IsSpace(At(s, a))
                               THEN WordsAt(s, SkipSpace(s, a), << {"load"}, {"in"}, {"n"} >>)
                               ELSE 0)
                   [] n = 3 ->
                       Loads({l \in a..Len(s) :
                                 /\ Lower(s[l]) = "load"
                                 /\ \A q \in a..(l - 1) : s[q] # ":"})
    IN  Label(IndexedLabelAt(s, i, PanelSetPointWords, FALSE, index))

(* re.search of position pattern n, and of load pattern n *)
PositionMatch(s, index, n) ==
    LET Captured(v) == Match(SubSeq(s, v, NumRunEnd(s, v)), <<>>)
        First(hits) ==
            IF hits = {} THEN NoMatch ELSE Captured(PositionStart(s, Min(hits), index, n))
    IN  First({i \in 1..Len(s) : PositionStart(s, i, index, n) # 0})

LoadMatch(s, index, n) ==
    LET Number(v, r) == Match(SubSeq(s, v, r), ToleranceAfter(s, r, <<"±">>))
        Captured(v) == Number(v, NumRunEnd(s, v))
        First(hits) ==
            IF hits = {} THEN NoMatch ELSE Captured(LoadStart(s, Min(hits), index, n))
    IN  First({i \in 1..Len(s) : LoadStart(s, i, index, n) # 0})

(* lines 645-653: the first position pattern that matches and converts *)
RECURSIVE PanelPosition(_, _, _)
PanelPosition(s, index, n) ==
    LET Matched(m) ==
            IF m.found /\ IsFloatText(m.value)
              THEN [has |-> TRUE, value |-> FloatOf(m.value)]
              ELSE PanelPosition(s, index, n + 1)
    IN  IF n > 3 THEN [has |-> FALSE, value |-> 0] ELSE Matched(PositionMatch(s, index, n))

(* lines 663-675: the load is stored before the tolerance is converted, so  *)
(* a tolerance that does not convert leaves the load and tries the next     *)
(* pattern                                                                  *)
RECURSIVE PanelLoad(_, _, _, _)
PanelLoad(s, index, n, sofar) ==
    LET Stored(m, loaded) ==
            IF m.tolerance = <<>> THEN loaded
            ELSE IF IsFloatText(m.tolerance)
              THEN [loaded EXCEPT !.has_tolerance = TRUE, !.tolerance = FloatOf(m.tolerance)]
            ELSE PanelLoad(s, index, n + 1, loaded)
        Matched(m) ==
            IF ~m.found \/ ~IsFloatText(m.value) THEN PanelLoad(s, index, n + 1, sofar)
            ELSE Stored(m, [sofar EXCEPT !.has = TRUE, !.value = FloatOf(m.value)])
    IN  IF n > 3 THEN sofar ELSE Matched(LoadMatch(s, index, n))

NoLoad == [has |-> FALSE, value |-> 0, has_tolerance |-> FALSE, tolerance |-> 0]

DefaultTolerance == 1000      \* 10.0

SetPointEntry(index, position, load) ==
    [index |-> IntOf(index) - 1, position |-> position.value, load |-> load.value,
     tolerance |-> IF load.has_tolerance THEN load.tolerance ELSE DefaultTolerance,
     enabled |-> TRUE]

(* lines 634-681 *)
RECURSIVE PanelSetPoints(_, _)
PanelSetPoints(s, indices) ==
    LET Entry(position, load) ==
            IF position.has /\ load.has
              THEN <<SetPointEntry(Head(indices), position, load)>> ELSE <<>>
    IN  IF indices = <<>> THEN <<>>
        ELSE Entry(PanelPosition(s, Head(indices), 1), PanelLoad(s, Head(indices), 1, NoLoad))
             \o PanelSetPoints(s, Tail(indices))

parse_specifications_text(text) ==
    LET Parsed(preprocessed_text) ==
            [basic_info |-> PanelBasicInfo(preprocessed_text, BasicKeys),
             set_points |-> PanelSetPoints(preprocessed_text,
                                SetPointIndices(preprocessed_text, PanelSetPointWords, FALSE))]
    IN  Parsed(Preprocess(text))

----------------------------------------------------------------------------
(* The texts given to the parsers: up to MaxItems items, one per line or    *)
(* pair of lines.                                                           *)

MaxItems == 2

PartNameLine == <<"Part", SP, "Name", ":", SP, "Demo", SP, "Spring">>
FreeLengthLine == <<"Free", SP, "Length", ":", SP, "5", "8", ".", "0", SP, "mm">>
BadFreeLengthLine == <<"Free", SP, "Length", ":", SP, "5", ".", "8", ".", "0", SP, "mm">>
OuterDiaLine == <<"OD", ":", SP, "1", "2">>
BadOuterDiaLine == <<"OD", ":", SP, "1", ".", "2", ".", "3">>
PartIdLine == <<"ID", ":", SP, "2", "8">>
HelloLine == <<"hello">>

PositionLine(word, index, colon, value) ==
    <<"Set", SP, word, "-">> \o index \o <<SP, "in", SP, "mm">> \o colon \o <<SP>> \o value
LoadLine(word, index, colon, value) ==
    <<"Set", SP, word, "-">> \o index \o <<SP, "Load", SP, "In", SP, "N">> \o colon
        \o <<SP>> \o value
TwoLines(a, b) == a \o <<NL>> \o b

Position1 == <<"4", "0", ".", "0", SP, "mm">>
Load1 == <<"2", "3", ".", "6", "±", "1", "0", "%">>
Position2 == <<"3", "3">>
Load2 == <<"3", "4", ".", "1", "4", "±", "5", "%">>
Position10 == <<"2", "8">>
Load10 == <<"4", "2", ".", "3", "6">>

Block(word, index, colon, position, load) ==
    TwoLines(PositionLine(word, index, colon, position), LoadLine(word, index, colon, load))

SpecItems ==
    { TwoLines(PartNameLine, FreeLengthLine),
      BadFreeLengthLine, OuterDiaLine, BadOuterDiaLine, PartIdLine, HelloLine,
      Block("Point", <<"1">>, <<":">>, Position1, Load1),
      Block("Poni", <<"1">>, <<":">>, Position1, Load1),
      Block("Poni", <<"2">>, <<":">>, Position2, Load2),
      Block("Poni", <<"1", "0">>, <<":">>, Position10, Load10),
      Block("Poni", <<"2">>, <<>>, Position2, Load2),
      PositionLine("Poni", <<"1">>, <<":">>, Position1),
      PositionLine("Poni", <<"1">>, <<>>, Position1),
      LoadLine("Poni", <<"1">>, <<":">>, <<"2", "3", ".", "6">>) }

ItemLists == UNION {[1..n -> SpecItems] : n \in 0..MaxItems}

(* "\n".join(lines) *)
RECURSIVE JoinLines(_)
JoinLines(lines) ==
    IF lines = <<>> THEN <<>>
    ELSE IF Len(lines) = 1 THEN lines[1]
    ELSE lines[1] \o <<NL>> \o JoinLines(Tail(lines))

----------------------------------------------------------------------------
(* The stored spring specification (models/data_models.py) and the update   *)
(* operations of SettingsService.  Lengths, loads and percentages are in    *)
(* hundredths.                                                              *)

SetPoint(position_mm, load_n) ==
    [position_mm |-> position_mm, load_n |-> load_n,
     tolerance_percent |-> 1000, enabled |-> TRUE]

(* SpringSpecification(): the defaults of the fields and of __post_init__ *)
SpringSpecification ==
    [part_name |-> <<"Demo", SP, "Spring">>,
     part_number |-> <<"Demo", SP, "Spring", "-", "1">>,
     part_id |-> 28,
     free_length_mm |-> 5800,
     coil_count |-> 750,
     wire_dia_mm |-> 300,
     outer_dia_mm |-> 3200,
     set_points |-> <<SetPoint(4000, 2360), SetPoint(3300, 3414), SetPoint(2800, 4236)>>,
     safety_limit_n |-> 30000,
     unit |-> "mm",
     enabled |-> TRUE]

update_spring_basic_info(spec, part_name, part_number, part_id, free_length, coil_count, wire_dia, outer_dia, safety_limit, unit, enabled) ==
    [spec EXCEPT !.part_name = part_name, !.part_number = part_number,
                 !.part_id = part_id, !.free_length_mm = free_length,
                 !.coil_count = coil_count, !.wire_dia_mm = wire_dia,
                 !.outer_dia_mm = outer_dia, !.safety_limit_n = safety_limit,
                 !.unit = unit, !.enabled = enabled]

(* while len(spec.set_points) <= index: spec.set_points.append(SetPoint(0.0, 0.0)) *)
RECURSIVE PadSetPoints(_, _)
PadSetPoints(set_points, index) ==
    IF Len(set_points) <= index
      THEN PadSetPoints(Append(set_points, SetPoint(0, 0)), index)
      ELSE set_points

(* a negative index counts from the end of the list *)
update_set_point(spec, index, position, load, tolerance, enabled) ==
    LET padded == PadSetPoints(spec.set_points, index)
        k == IF index >= 0 THEN index + 1 ELSE Len(padded) + index + 1
    IN  [spec EXCEPT !.set_points =
            [padded EXCEPT ![k] = [position_mm |-> position, load_n |-> load,
                                   tolerance_percent |-> tolerance, enabled |-> enabled]]]

add_set_point(spec) == [spec EXCEPT !.set_points = Append(@, SetPoint(0, 0))]

(* set_points.pop(index) *)
Pop(set_points, index) == SubSeq(set_points, 1, index) \o SubSeq(set_points, index + 2, Len(set_points))

(* the index is not compared with 0: a negative index counts from the end *)
delete_set_point_from_the_end(spec, index) ==
    IF index < Len(spec.set_points) /\ -index <= Len(spec.set_points)
      THEN [spec EXCEPT !.set_points =
               Pop(@, IF index >= 0 THEN index ELSE Len(@) + index)]
      ELSE spec

(* settings_service.py lines 272-282 *)
delete_set_point(spec, index) ==
    IF 0 <= index /\ index < Len(spec.set_points)
      THEN [spec EXCEPT !.set_points = Pop(@, index)]
      ELSE spec

----------------------------------------------------------------------------
(* ChatPanel.parse_spring_specs (ui/chat_panel.py; the copy in              *)
(* ui/chat_components/chat_panel.py is the same).                           *)

(* pattern in text.lower(), the pattern given as lower-case tokens *)
ContainsPhrase(text, phrase) ==
    \E i \in 1..Len(text) :
        \A k \in 1..Len(phrase) : Lower(At(text, i + k - 1)) = phrase[k]

(* lines 458-461 *)
LooksLikeSpecs(text) ==
    \E phrase \in { <<"part", SP, "name", ":">>, <<"free", SP, "length", ":">>,
                    <<"wire", SP, "dia", ":">>, <<"od", ":">>,
                    <<"set", SP, "point">>, <<"safety", SP, "limit", ":">> } :
        ContainsPhrase(text, phrase)

(* the label of each pattern of lines 473-482 *)
ChatLabel(key) ==
    CASE key = "part_name" -> << {"part"}, {"name"} >>
      [] key = "part_number" -> << {"part"}, {"number"} >>
      [] key = "part_id" -> << {"id"} >>
      [] key = "free_length" -> << {"free"}, {"length"} >>
      [] key = "coil_count" -> << {"no"}, {"of"}, {"coils"} >>
      [] key = "wire_dia" -> << {"wire", "wired"}, {"dia", "diameter"} >>
      [] key = "outer_dia" -> << {"od"} >>
      [] key = "safety_limit" -> << {"safety"}, {"limit"} >>

(* the unit a pattern allows after the number: (?:\s*mm)? or (?:\s*N)? *)
ChatUnit(key) ==
    CASE key \in {"free_length", "wire_dia", "outer_dia"} -> {"mm"}
      [] key = "safety_limit" -> {"n"}
      [] OTHER -> {}

(* (?:\s*UNIT)?(?:\n|$) matches after the token at r *)
EndsLine(s, r, units) ==
    LET Unit(u) == Lower(At(s, u)) \in units /\ At(s, u + 1) \in {NL, "<end>"}
    IN  At(s, r + 1) \in {NL, "<end>"} \/ Unit(SkipSpace(s, r + 1))

(* LABEL:\s* matches at i: the index where the value starts, 0 if no match *)
ChatValueStart(s, i, key) ==
    LET After(e) == IF e # 0 /\ At(s, e) = ":" THEN SkipSpace(s, e + 1) ELSE 0
    IN  After(WordsAtBlank(s, i, ChatLabel(key)))

(* the match of (.+?)(?:\n|$) from v *)
LineEnd(s, v) == Min({q \in v..Len(s) : q = Len(s) \/ s[q + 1] = NL})

(* re.search of the pattern of a basic field in the message *)
ChatBasicMatch(s, key) ==
    LET Starts(i, v) ==
            /\ v # 0
            /\ CASE key \in TextKeys ->
                      \/ v <= Len(s)
                      \/ \E st \in i..Len(s) :
                            s[st] = SP /\ \A q \in st..Len(s) : IsSpace(s[q])
                 [] key = "part_id" ->
                      IsDigit(At(s, v)) /\ EndsLine(s, DigitsEnd(s, v), {})
                 [] OTHER ->
                      IsNumChar(At(s, v)) /\ EndsLine(s, NumRunEnd(s, v), ChatUnit(key))
        Captured(v) ==
            CASE key \in TextKeys ->
                   IF v <= Len(s)
                     THEN Match(StripSpace(SubSeq(s, v, LineEnd(s, v))), <<>>)
                     ELSE Match(<<>>, <<>>)
              [] key = "part_id" -> Match(SubSeq(s, v, DigitsEnd(s, v)), <<>>)
              [] OTHER -> Match(SubSeq(s, v, NumRunEnd(s, v)), <<>>)
        First(hits) ==
            IF hits = {} THEN NoMatch ELSE Captured(ChatValueStart(s, Min(hits), key))
    IN  First({i \in 1..Len(s) : Starts(i, ChatValueStart(s, i, key))})

(* lines 485-497 *)
RECURSIVE ChatBasicInfo(_, _)
ChatBasicInfo(s, keys) ==
    LET Entry(m) ==
            IF m.found /\ Converts(Head(keys), m.value)
              THEN << <<Head(keys), Converted(Head(keys), m.value)>> >>
              ELSE <<>>
    IN  IF keys = <<>> THEN <<>>
        ELSE Entry(ChatBasicMatch(s, Head(keys))) \o ChatBasicInfo(s, Tail(keys))

ChatSetPointWords == {"poii", "poit", "poni", "pont"}

(* the sign the load pattern of line 520 has ahead of the tolerance: the    *)
(* two characters that the bytes of a plus-minus sign give when they are    *)
(* read in the wrong encoding                                               *)
ChatToleranceSign == <<"Â", "±">>

(* line 516 *)
ChatPositionStart(s, i, index) ==
    LET Number(v) ==
            IF IsNumChar(At(s, v)) /\ EndsLine(s, NumRunEnd(s, v), {"mm"}) THEN v ELSE 0
        Colon(b) == IF At(s, b) = ":" THEN Number(SkipSpace(s, b + 1)) ELSE 0
        InMm(a, e) == Colon(IF IsSpace(At(s, a)) /\ e # 0 THEN e ELSE a)
        Label(a) ==
            IF a = 0 THEN 0
            ELSE InMm(a, WordsAtBlank(s, SkipSpace(s, a), << {"in"}, {"mm"} >>))
    IN  Label(IndexedLabelAt(s, i, ChatSetPointWords, TRUE, index))

(* line 520 *)
ChatLoadStart(s, i, index) ==
    LET Ends(v, r, t) ==
            IF EndsLine(s, IF t = <<>> THEN r ELSE r + Len(ChatToleranceSign) + Len(t) + 1,
                        {"n"})
              THEN v ELSE 0
        NumberRun(v, r) == Ends(v, r, ToleranceAfter(s, r, ChatToleranceSign))
        Number(v) == IF IsNumChar(At(s, v)) THEN NumberRun(v, NumRunEnd(s, v)) ELSE 0
        Words(b) == IF b # 0 /\ At(s, b) = ":" THEN Number(SkipSpace(s, b + 1)) ELSE 0
        Label(a) ==
            IF a # 0 /\ At(s, a) = SP
              THEN Words(WordsAtBlank(s, a + 1, << {"load"}, {"in"}, {"n"} >>))
              ELSE 0
    IN  Label(IndexedLabelAt(s, i, ChatSetPointWords, TRUE, index))

ChatPositionMatch(s, index) ==
    LET Captured(v) == Match(SubSeq(s, v, NumRunEnd(s, v)), <<>>)
        First(hits) ==
            IF hits = {} THEN NoMatch ELSE Captured(ChatPositionStart(s, Min(hits), index))
    IN  First({i \in 1..Len(s) : ChatPositionStart(s, i, index) # 0})

ChatLoadMatch(s, index) ==
    LET Number(v, r) == Match(SubSeq(s, v, r), ToleranceAfter(s, r, ChatToleranceSign))
        Captured(v) == Number(v, NumRunEnd(s, v))
        First(hits) ==
            IF hits = {} THEN NoMatch ELSE Captured(ChatLoadStart(s, Min(hits), index))
    IN  First({i \in 1..Len(s) : ChatLoadStart(s, i, index) # 0})

(* lines 510-545: a number that does not convert skips the set point *)
RECURSIVE ChatSetPoints(_, _)
ChatSetPoints(s, indices) ==
    LET Converts2(position_match, load_match) ==
            /\ position_match.found => IsFloatText(position_match.value)
            /\ load_match.found =>
                  /\ IsFloatText(load_match.value)
                  /\ load_match.tolerance # <<>> => IsFloatText(load_match.tolerance)
        Entry(position_match, load_match) ==
            IF Converts2(position_match, load_match) /\ position_match.found /\ load_match.found
              THEN <<SetPointEntry(Head(indices),
                        [has |-> TRUE, value |-> FloatOf(position_match.value)],
                        [has |-> TRUE, value |-> FloatOf(load_match.value),
                         has_tolerance |-> load_match.tolerance # <<>>,
                         tolerance |-> IF load_match.tolerance # <<>>
                                         THEN FloatOf(load_match.tolerance) ELSE 0])>>
              ELSE <<>>
    IN  IF indices = <<>> THEN <<>>
        ELSE Entry(ChatPositionMatch(s, Head(indices)), ChatLoadMatch(s, Head(indices)))
             \o ChatSetPoints(s, Tail(indices))

NothingParsed == [basic_info |-> <<>>, set_points |-> <<>>]

(* lines 458-545: the parsed_data that parse_spring_specs builds *)
ChatParsedData(text) ==
    IF ~LooksLikeSpecs(text) THEN NothingParsed
    ELSE [basic_info |-> ChatBasicInfo(text, BasicKeys),
          set_points |-> ChatSetPoints(text,
                             SetPointIndices(text, ChatSetPointWords, TRUE))]

(* lines 574-586: every parsed set point is written to the settings *)
RECURSIVE ApplySetPoints(_, _)
ApplySetPoints(state, set_points) ==
    LET Update(sp, added) ==
            ApplySetPoints(
                [spec |-> update_set_point(added.spec, sp.index, sp.position, sp.load,
                                           sp.tolerance, sp.enabled),
                 calls |-> Append(added.calls, "update_set_point")],
                Tail(set_points))
        Add(sp) ==
            Update(sp, IF sp.index < Len(state.spec.set_points)
                         THEN state
                         ELSE [spec |-> add_set_point(state.spec),
                               calls |-> Append(state.calls, "add_set_point")])
    IN  IF set_points = <<>> THEN state ELSE Add(Head(set_points))

(* lines 547-586: what parse_spring_specs does to the settings with the     *)
(* data it parsed                                                           *)
ChatApply(spec, parsed) ==
    LET Updated(basic) ==
            IF basic = <<>> THEN [spec |-> spec, calls |-> <<>>]
            ELSE [spec |-> update_spring_basic_info(spec,
                              DictGet(basic, "part_name", spec.part_name),
                              DictGet(basic, "part_number", spec.part_number),
                              DictGet(basic, "part_id", spec.part_id),
                              DictGet(basic, "free_length", spec.free_length_mm),
                              DictGet(basic, "coil_count", spec.coil_count),
                              DictGet(basic, "wire_dia", spec.wire_dia_mm),
                              DictGet(basic, "outer_dia", spec.outer_dia_mm),
                              DictGet(basic, "safety_limit", spec.safety_limit_n),
                              "mm", TRUE),
                  calls |-> <<"update_spring_basic_info">>]
    IN  ApplySetPoints(Updated(parsed.basic_info), parsed.set_points)

----------------------------------------------------------------------------
(* SpecificationsPanel.clean_pdf_text.  The patterns are matched without    *)
(* regard to case; a pattern that can match inside a word ("od", "id")      *)
(* matches a whole token here, the words of the texts having no such part.  *)

(* a keyword of line 865 starts at i *)
PdfKeywordAt(s, i) ==
    LET Keyword(w, next) ==
            \/ w = "part" /\ At(s, i + 1) = SP /\ next \in {"name", "number"}
            \/ w \in {"id", "od"} /\ At(s, i + 1) = ":"
            \/ w = "free" /\ At(s, i + 1) = SP /\ next = "length"
            \/ w = "no" /\ At(s, i + 1) = SP /\ next = "of" /\ At(s, i + 3) = SP
            \/ w \in {"wire", "wired"} /\ At(s, i + 1) = SP
            \/ w = "set" /\ At(s, i + 1) = SP /\ next \in {"point", "poni", "poit", "pont", "poii"}
            \/ w = "safety"
    IN  Keyword(Lower(At(s, i)), Lower(At(s, i + 2)))

(* lines 864-866: the white space between a character and a keyword becomes *)
(* one newline: of such a run the first token becomes the newline and the   *)
(* others go                                                                *)
BreakBeforeKeywords(s) ==
    LET Breaks(a) ==
            a > 1 /\ IsSpace(s[a]) /\ ~IsSpace(s[a - 1]) /\ PdfKeywordAt(s, SkipSpace(s, a))
        InBreak(i) ==
            \E a \in 1..(i - 1) : Breaks(a) /\ \A q \in a..i : IsSpace(s[q])
        Broken(kept) == [k \in 1..Len(kept) |-> IF Breaks(kept[k]) THEN NL ELSE s[kept[k]]]
    IN  Broken(SelectSeq(Indices(s), LAMBDA i : ~InBreak(i)))

(* text.split('\n') *)
RECURSIVE SplitLines(_)
SplitLines(s) ==
    LET Cut(i) == <<SubSeq(s, 1, i - 1)>> \o SplitLines(SubSeq(s, i + 1, Len(s)))
    IN  IF \E i \in 1..Len(s) : s[i] = NL
          THEN Cut(Min({k \in 1..Len(s) : s[k] = NL}))
          ELSE <<s>>

(* lines 869-872: every line with its white space collapsed and stripped *)
CleanLines(s) ==
    LET Cleaned(lines) ==
            JoinLines([k \in 1..Len(lines) |-> StripSpace(CollapseSpace(lines[k]))])
    IN  Cleaned(SplitLines(s))

IsSep(tok) == IsSpace(tok) \/ tok = ":"

(* the end of [\s:]* that starts at i *)
RECURSIVE SkipSep(_, _)
SkipSep(s, i) == IF i <= Len(s) /\ IsSep(s[i]) THEN SkipSep(s, i + 1) ELSE i

(* words separated by [\s:]+, or by [\s:]* when glued, matched at i: the    *)
(* index after the last word, 0 if no match                                 *)
RECURSIVE PdfWordsAt(_, _, _, _)
PdfWordsAt(s, i, words, glued) ==
    IF Lower(At(s, i)) \notin Head(words) THEN 0
    ELSE IF Len(words) = 1 THEN i + 1
    ELSE IF ~glued /\ ~IsSep(At(s, i + 1)) THEN 0
    ELSE PdfWordsAt(s, SkipSep(s, i + 1), Tail(words), glued)

(* the patterns of lines 878-911: the alternatives of the label in the      *)
(* order of the pattern, whether the words may touch, and whether the       *)
(* pattern starts at the start of the text or of a line                     *)
PdfPattern(labels, glued, anchored) ==
    [labels |-> labels, glued |-> glued, anchored |-> anchored]

PdfPatterns(key) ==
    CASE key = "part_name" ->
           << PdfPattern(<< << {"part", "spring"}, {"name"} >> >>, FALSE, FALSE),
              PdfPattern(<< << {"part"}, {"name"} >> >>, TRUE, TRUE) >>
      [] key = "part_number" ->
           << PdfPattern(<< << {"part", "spring"}, {"number", "no", "#"} >> >>, FALSE, FALSE),
              PdfPattern(<< << {"part"}, {"number"} >> >>, TRUE, TRUE) >>
      [] key = "part_id" ->
           << PdfPattern(<< << {"id"} >> >>, FALSE, FALSE),
              PdfPattern(<< << {"id"} >> >>, TRUE, TRUE) >>
      [] key = "free_length" ->
           << PdfPattern(<< << {"free"}, {"length"} >> >>, FALSE, FALSE),
              PdfPattern(<< << {"free"}, {"length"} >> >>, TRUE, TRUE) >>
      [] key = "coil_count" ->
           << PdfPattern(<< << {"number", "no"}, {"of"}, {"coils", "colis"} >> >>, FALSE, FALSE),
              PdfPattern(<< << {"no", "number"}, {"of"}, {"coils", "colis"} >> >>, TRUE, TRUE) >>
      [] key = "wire_dia" ->
           << PdfPattern(<< << {"wire", "wired"}, {"dia", "diameter"} >> >>, FALSE, FALSE),
              PdfPattern(<< << {"wire", "wired"}, {"dia", "diameter"} >> >>, TRUE, TRUE) >>
      [] key = "outer_dia" ->
           << PdfPattern(<< << {"outer"}, {"dia", "diameter"} >>, << {"od"} >> >>, FALSE, FALSE),
              PdfPattern(<< << {"outer"}, {"diameter"} >>, << {"od"} >> >>, TRUE, TRUE) >>
      [] key = "safety_limit" ->
           << PdfPattern(<< << {"safety"}, {"limit"} >> >>, FALSE, FALSE),
              PdfPattern(<< << {"safety"}, {"limit"} >> >>, TRUE, TRUE) >>

(* (?:^|\n)[\s:]* can end at i *)
AtLineStart(s, i) ==
    \E j \in 1..i : (j = 1 \/ s[j - 1] = NL) /\ \A q \in j..(i - 1) : IsSep(s[q])

(* the last token of the match of \d+\.?\d* that starts at i *)
PdfNumberEnd(s, i) ==
    LET Fraction(e) ==
            IF At(s, e + 1) = "."
              THEN IF IsDigit(At(s, e + 2)) THEN DigitsEnd(s, e + 2) ELSE e + 1
              ELSE e
    IN  Fraction(DigitsEnd(s, i))

(* what the value of a field may hold: [^,;\n\d], and [^,;\n] for the part  *)
(* number                                                                   *)
InPdfText(key, tok) ==
    /\ tok \notin {",", ";", NL, "<end>"}
    /\ key = "part_name" => ~IsDigit(tok)

RECURSIVE PdfTextEnd(_, _, _)
PdfTextEnd(s, i, key) ==
    IF InPdfText(key, At(s, i + 1)) THEN PdfTextEnd(s, i + 1, key) ELSE i

(* the value a pattern captures when its label alternative matches at i:    *)
(* the indices of its first and last token, <<0, 0>> if the pattern does    *)
(* not match at i with this alternative                                     *)
PdfCapture(s, i, key, pattern, label) ==
    LET Value(e, v) ==
            IF e = 0 \/ (pattern.anchored /\ ~AtLineStart(s, i)) THEN <<0, 0>>
            ELSE IF key \in TextKeys
              THEN IF InPdfText(key, At(s, v)) THEN <<v, PdfTextEnd(s, v, key)>>
                   ELSE IF v > e /\ s[v - 1] # NL THEN <<v - 1, v - 1>>
                   ELSE <<0, 0>>
            ELSE IF IsDigit(At(s, v))
              THEN <<v, IF key = "part_id" THEN DigitsEnd(s, v) ELSE PdfNumberEnd(s, v)>>
            ELSE <<0, 0>>
        Words(e) == Value(e, SkipSep(s, e))
    IN  Words(PdfWordsAt(s, i, label, pattern.glued))

(* the first alternative of the label that matches at i *)
RECURSIVE PdfCaptureAt(_, _, _, _, _)
PdfCaptureAt(s, i, key, pattern, n) ==
    LET Captured(c) == IF c # <<0, 0>> THEN c ELSE PdfCaptureAt(s, i, key, pattern, n + 1)
    IN  IF n > Len(pattern.labels) THEN <<0, 0>>
        ELSE Captured(PdfCapture(s, i, key, pattern, pattern.labels[n]))

(* re.search(pattern, cleaned, re.IGNORECASE) and match.group(1).strip() *)
PdfSearch(s, key, pattern) ==
    LET Captured(c) == Match(StripSpace(SubSeq(s, c[1], c[2])), <<>>)
        First(hits) ==
            IF hits = {} THEN NoMatch ELSE Captured(PdfCaptureAt(s, Min(hits), key, pattern, 1))
    IN  First({i \in 1..Len(s) : PdfCaptureAt(s, i, key, pattern, 1) # <<0, 0>>})

(* lines 914-919: the first pattern of the field that matches *)
PdfField(s, key) ==
    LET Found(first) == IF first.found THEN first ELSE PdfSearch(s, key, PdfPatterns(key)[2])
    IN  Found(PdfSearch(s, key, PdfPatterns(key)[1]))

(* set[\s:]+(?:poin?t|poni)[\s\-:]+ matches at i: the index after it, 0 if  *)
(* it does not match                                                        *)
PdfSetPointWords == {"point", "poit", "poni"}

RECURSIVE SkipSepOrDash(_, _)
SkipSepOrDash(s, i) ==
    IF i <= Len(s) /\ (IsSep(s[i]) \/ s[i] = "-") THEN SkipSepOrDash(s, i + 1) ELSE i

PdfSetPointLabelAt(s, i) ==
    LET Dash(w, d) ==
            IF /\ Lower(At(s, i)) = "set" /\ IsSep(At(s, i + 1))
               /\ Lower(At(s, w)) \in PdfSetPointWords
               /\ d > w + 1
              THEN d ELSE 0
        Word(w) == Dash(w, SkipSepOrDash(s, w + 1))
    IN  Word(SkipSep(s, i + 1))

(* lines 925-931: the indices of the labels, each once, in the order of     *)
(* their first appearance                                                   *)
PdfSetPointIndices(s) ==
    LET Digit(d) == d # 0 /\ IsDigit(At(s, d))
        IndexAt(d) == StrOfInt(SubSeq(s, d, DigitsEnd(s, d)))
        Found(at) ==
            DistinctInOrder([k \in 1..Len(at) |-> IndexAt(PdfSetPointLabelAt(s, at[k]))])
    IN  Found(SelectSeq(Indices(s), LAMBDA i : Digit(PdfSetPointLabelAt(s, i))))

PdfIndexedLabelAt(s, i, index) ==
    LET Index(d) ==
            IF d # 0 /\ d + Len(index) - 1 <= Len(s) /\ SubSeq(s, d, d + Len(index) - 1) = index
              THEN d + Len(index) ELSE 0
    IN  Index(PdfSetPointLabelAt(s, i))

(* where the number of position pattern n starts; lines 936-940 *)
PdfPositionStart(s, i, index, n) ==
    LET Digit(v) == IF IsDigit(At(s, v)) THEN v ELSE 0
        Words(b) == IF b # 0 THEN Digit(SkipSep(s, b)) ELSE 0
        First(ps) == IF ps = {} THEN 0 ELSE Min(ps)
        Label(a) ==
            IF a = 0 THEN 0
            ELSE CASE n = 1 ->
                       Words(IF IsSep(At(s, a))
                               THEN PdfWordsAt(s, SkipSep(s, a), << {"in"}, {"mm"} >>, FALSE)
                               ELSE 0)
                   [] n = 2 -> Digit(SkipSep(s, a))
                   [] n = 3 -> First({p \in a..Len(s) : IsDigit(s[p])})
    IN  Label(PdfIndexedLabelAt(s, i, index))

(* where the number of load pattern n starts; lines 949-953 *)
PdfLoadStart(s, i, index, n) ==
    LET Digit(v) == IF IsDigit(At(s, v)) THEN v ELSE 0
        Words(b) == IF b # 0 THEN Digit(SkipSep(s, b)) ELSE 0
        First(ps) == IF ps = {} THEN 0 ELSE Min(ps)
        AfterLoad(l) ==
            First({p \in (l + 1)..Len(s) :
                      /\ IsDigit(s[p])
                      /\ \A q \in (l + 1)..(p - 1) : s[q] # NL})
        Loads(ls) == IF ls = {} THEN 0 ELSE AfterLoad(Min(ls))
        Label(a) ==
            IF a = 0 THEN 0
            ELSE CASE n = 1 ->
                       Words(IF IsSep(At(s, a))
                               THEN PdfWordsAt(s, SkipSep(s, a),
                                               << {"load"}, {"in"}, {"n"} >>, FALSE)
                               ELSE 0)
                   [] n = 2 ->
                       Words(IF IsSep(At(s, a))
                               THEN PdfWordsAt(s, SkipSep(s, a), << {"load"} >>, FALSE)
                               ELSE 0)
                   [] n = 3 ->
                       Loads({l \in a..Len(s) :
                                 /\ Lower(s[l]) = "load"
                                 /\ \A q \in a..(l - 1) : s[q] # NL})
    IN  Label(PdfIndexedLabelAt(s, i, index))

PdfPositionMatch(s, index, n) ==
    LET Captured(v) == Match(SubSeq(s, v, PdfNumberEnd(s, v)), <<>>)
        First(hits) ==
            IF hits = {} THEN NoMatch ELSE Captured(PdfPositionStart(s, Min(hits), index, n))
    IN  First({i \in 1..Len(s) : PdfPositionStart(s, i, index, n) # 0})

PdfLoadMatch(s, index, n) ==
    LET Number(v, r) == Match(SubSeq(s, v, r), ToleranceAfter(s, r, <<"±">>))
        Captured(v) == Number(v, PdfNumberEnd(s, v))
        First(hits) ==
            IF hits = {} THEN NoMatch ELSE Captured(PdfLoadStart(s, Min(hits), index, n))
    IN  First({i \in 1..Len(s) : PdfLoadStart(s, i, index, n) # 0})

(* lines 942-960: the first pattern that matches *)
RECURSIVE PdfFirstMatch(_, _, _, _)
PdfFirstMatch(s, index, n, is_load) ==
    LET Matched(m) == IF m.found THEN m ELSE PdfFirstMatch(s, index, n + 1, is_load)
    IN  IF n > 3 THEN NoMatch
        ELSE Matched(IF is_load THEN PdfLoadMatch(s, index, n)
                                ELSE PdfPositionMatch(s, index, n))

(* sorted(set_points.keys()) *)
RECURSIVE SortIndices(_)
SortIndices(indices) ==
    LET Least(k) ==
            <<indices[k]>>
            \o SortIndices(SubSeq(indices, 1, k - 1) \o SubSeq(indices, k + 1, Len(indices)))
    IN  IF indices = <<>> THEN <<>>
        ELSE Least(CHOOSE k \in 1..Len(indices) :
                      \A j \in 1..Len(indices) : IntOf(indices[k]) <= IntOf(indices[j]))

(* lines 963-993: the lines written for what was found *)
PdfBasicLine(s, key) ==
    LET label == CASE key = "part_name" -> <<"Part", SP, "Name", ":", SP>>
                   [] key = "part_number" -> <<"Part", SP, "Number", ":", SP>>
                   [] key = "part_id" -> <<"ID", ":", SP>>
                   [] key = "free_length" -> <<"Free", SP, "Length", ":", SP>>
                   [] key = "coil_count" -> <<"No", SP, "of", SP, "Coils", ":", SP>>
                   [] key = "wire_dia" -> <<"Wire", SP, "Dia", ":", SP>>
                   [] key = "outer_dia" -> <<"OD", ":", SP>>
                   [] key = "safety_limit" -> <<"Safety", SP, "limit", ":", SP>>
        unit == CASE key \in {"free_length", "wire_dia", "outer_dia"} -> <<SP, "mm">>
                  [] key = "safety_limit" -> <<SP, "N">>
                  [] OTHER -> <<>>
        Line(m) == IF m.found THEN label \o m.value \o unit \o <<NL>> ELSE <<>>
    IN  Line(PdfField(s, key))

RECURSIVE PdfBasicLines(_, _)
PdfBasicLines(s, keys) ==
    IF keys = <<>> THEN <<>>
    ELSE PdfBasicLine(s, Head(keys)) \o PdfBasicLines(s, Tail(keys))

PdfSetPointLines(s, index) ==
    LET PositionLine2(position) ==
            IF position.found
              THEN <<"Set", SP, "Point", "-">> \o index \o <<SP, "in", SP, "mm", ":", SP>>
                      \o position.value \o <<SP, "mm", NL>>
              ELSE <<>>
        LoadLine2(load) ==
            IF load.found
              THEN <<"Set", SP, "Point", "-">> \o index \o <<SP, "Load", SP, "In", SP, "N", ":", SP>>
                      \o load.value \o <<"±">>
                      \o (IF load.tolerance # <<>> THEN load.tolerance ELSE <<"1", "0">>)
                      \o <<"%", SP, "N", NL>>
              ELSE <<>>
    IN  PositionLine2(PdfFirstMatch(s, index, 1, FALSE))
        \o LoadLine2(PdfFirstMatch(s, index, 1, TRUE))

RECURSIVE PdfAllSetPointLines(_, _)
PdfAllSetPointLines(s, indices) ==
    IF indices = <<>> THEN <<>>
    ELSE PdfSetPointLines(s, Head(indices)) \o PdfAllSetPointLines(s, Tail(indices))

(* line 1001: a line of the text that has a label keyword in it *)
HasLabelKeyword(line) ==
    \E phrase \in { <<"part", SP, "name">>, <<"part", SP, "number">>, <<"id", ":">>,
                    <<"free", SP, "length">>, <<"coils">>, <<"colis">>,
                    <<"wire", SP, "dia">>, <<"wired">>, <<"od", ":">>,
                    <<"set", SP, "point">>, <<"set", SP, "poni">>, <<"safety">> } :
        ContainsPhrase(line, phrase)

(* lines 996-1003 *)
RECURSIVE KeywordLines(_)
KeywordLines(lines) ==
    LET Kept(line) == IF HasLabelKeyword(line) THEN line \o <<NL>> ELSE <<>>
    IN  IF lines = <<>> THEN <<>>
        ELSE Kept(StripSpace(Head(lines))) \o KeywordLines(Tail(lines))

clean_pdf_text(text) ==
    LET Fallback(kept) == IF StripSpace(kept) # <<>> THEN kept ELSE text
        Output(formatted_output) ==
            IF StripSpace(formatted_output) # <<>> THEN formatted_output
            ELSE Fallback(KeywordLines(SplitLines(text)))
        Formatted(cleaned) ==
            Output(PdfBasicLines(cleaned, SubSeq(BasicKeys, 1, 7))
                   \o PdfAllSetPointLines(cleaned,
                          SortIndices(PdfSetPointIndices(cleaned)))
                   \o PdfBasicLines(cleaned, <<"safety_limit">>))
    IN  Formatted(CleanLines(BreakBeforeKeywords(text)))

----------------------------------------------------------------------------
(* The basic-info form of SpecificationsPanel and the handlers that write   *)
(* it.  A handler works on h: the form, the stored specification, the       *)
(* panel's copy of it, the settings operations applied, and whether the     *)
(* handler came to its end.                                                 *)

DigitText(d) ==
    CASE d = 0 -> "0" [] d = 1 -> "1" [] d = 2 -> "2" [] d = 3 -> "3" [] d = 4 -> "4"
      [] d = 5 -> "5" [] d = 6 -> "6" [] d = 7 -> "7" [] d = 8 -> "8" [] d = 9 -> "9"

(* str(n) of an integer that is not negative *)
RECURSIVE Str(_)
Str(n) == IF n < 10 THEN <<DigitText(n)>> ELSE Str(n \div 10) \o <<DigitText(n % 10)>>

(* the widgets as init_ui builds them (lines 229-292): empty line edits,    *)
(* spin boxes at their minimum 0, the first unit, the box unchecked         *)
EmptyForm ==
    [part_name |-> <<>>, part_number |-> <<>>, part_id |-> <<>>,
     free_length |-> 0, coil_count |-> 0, wire_dia |-> 0, outer_dia |-> 0,
     safety_limit |-> 0, unit |-> "mm", enabled |-> FALSE]

(* QDoubleSpinBox.setValue: the value rounded to the decimals of the box    *)
(* (step hundredths) and kept within its range 0..maximum                   *)
SpinValue(v, maximum, step) ==
    LET rounded == ((2 * v + step) \div (2 * step)) * step
    IN  IF rounded > maximum THEN maximum ELSE rounded

(* what a widget shows for a parsed or stored value: lines 409-416, 694-715 *)
FormValue(key, value) ==
    CASE key \in TextKeys -> value
      [] key = "part_id" -> Str(value)
      [] key = "free_length" -> SpinValue(value, 100000, 1)
      [] key = "coil_count" -> SpinValue(value, 10000, 10)
      [] key = "wire_dia" -> SpinValue(value, 10000, 1)
      [] key = "outer_dia" -> SpinValue(value, 50000, 1)
      [] key = "safety_limit" -> SpinValue(value, 1000000, 1)

(* lines 447-472 *)
on_basic_info_changed(h) ==
    LET Updated(spec) ==
            [h EXCEPT !.stored = spec, !.specifications = spec,
                      !.calls = Append(@, "update_spring_basic_info")]
    IN  Updated(update_spring_basic_info(h.stored, h.form.part_name, h.form.part_number,
                    IF IsIntText(h.form.part_id) THEN IntOf(h.form.part_id) ELSE 0,
                    h.form.free_length, h.form.coil_count, h.form.wire_dia,
                    h.form.outer_dia, h.form.safety_limit, h.form.unit, h.form.enabled))

(* lines 474-487: the panel's copy is written to the settings *)
on_enabled_changed(h, checked) ==
    LET spec == [h.specifications EXCEPT !.enabled = checked]
    IN  [h EXCEPT !.stored = spec, !.specifications = spec,
                  !.calls = Append(@, "set_spring_specification")]

(* setText, setValue: a widget whose value changes emits its signal, which  *)
(* lines 230-285 connect to on_basic_info_changed                           *)
SetWidget(h, key, shown) ==
    IF h.form[key] = shown THEN h
    ELSE on_basic_info_changed([h EXCEPT !.form[key] = shown])

(* setChecked: stateChanged is connected to on_enabled_changed (line 290) *)
SetChecked(h, checked) ==
    IF h.form.enabled = checked THEN h
    ELSE on_enabled_changed([h EXCEPT !.form.enabled = checked], checked)

(* lines 402-425: every widget is set from self.specifications, which a     *)
(* signal handler may have replaced in between                              *)
RECURSIVE LoadWidgets(_, _)
LoadWidgets(h, keys) ==
    LET Stored(key, spec) ==
            CASE key = "part_name" -> spec.part_name
              [] key = "part_number" -> spec.part_number
              [] key = "part_id" -> spec.part_id
              [] key = "free_length" -> spec.free_length_mm
              [] key = "coil_count" -> spec.coil_count
              [] key = "wire_dia" -> spec.wire_dia_mm
              [] key = "outer_dia" -> spec.outer_dia_mm
              [] key = "safety_limit" -> spec.safety_limit_n
        Load(key) ==
            LoadWidgets(SetWidget(h, key, FormValue(key, Stored(key, h.specifications))),
                        Tail(keys))
    IN  IF keys = <<>> THEN h ELSE Load(Head(keys))

load_specifications(h) ==
    LET Enabled(unit_set) == SetChecked(unit_set, unit_set.specifications.enabled)
        Unit(loaded) == Enabled(SetWidget(loaded, "unit", loaded.specifications.unit))
    IN  Unit(LoadWidgets([h EXCEPT !.specifications = h.stored], BasicKeys))

(* lines 170-198: the panel built over the settings that hold spec *)
SpecificationsPanel(spec) ==
    load_specifications([form |-> EmptyForm, stored |-> spec, specifications |-> spec,
                         calls |-> <<>>, returned |-> TRUE])

(* lines 691-715 *)
RECURSIVE PopulateWidgets(_, _, _)
PopulateWidgets(h, basic_info, keys) ==
    IF keys = <<>> THEN h
    ELSE PopulateWidgets(
             IF HasKey(basic_info, Head(keys))
               THEN SetWidget(h, Head(keys), FormValue(Head(keys), Get(basic_info, Head(keys))))
               ELSE h,
             basic_info, Tail(keys))

(* lines 735-749: the guard reads the panel's copy *)
RECURSIVE UpdateSetPoints(_, _)
UpdateSetPoints(h, set_points) ==
    LET Update(sp) ==
            UpdateSetPoints(
                IF sp.index >= Len(h.specifications.set_points) THEN h
                ELSE [h EXCEPT !.stored = update_set_point(@, sp.index, sp.position,
                                              sp.load, sp.tolerance, sp.enabled),
                               !.calls = Append(@, "update_set_point")],
                Tail(set_points))
    IN  IF set_points = <<>> THEN h ELSE Update(Head(set_points))

(* lines 685-757.  The loop of lines 731-732 compares the panel's copy,     *)
(* which add_set_point does not change: when it is entered it does not end. *)
populate_form_from_parsed_data(h, parsed) ==
    LET Refreshed(updated) == [updated EXCEPT !.specifications = updated.stored]
        SetPoints(basic) ==
            IF parsed.set_points = <<>> THEN basic
            ELSE IF Len(basic.specifications.set_points) < Len(parsed.set_points)
              THEN [basic EXCEPT !.stored = add_set_point(@),
                                 !.calls = Append(@, "add_set_point"),
                                 !.returned = FALSE]
            ELSE Refreshed(UpdateSetPoints(basic, parsed.set_points))
        Checked(widgets) ==
            SetPoints(on_basic_info_changed(
                          IF parsed.basic_info # <<>> THEN SetChecked(widgets, TRUE)
                          ELSE widgets))
    IN  Checked(PopulateWidgets(h, parsed.basic_info, BasicKeys))

(* lines 547-565: a dictionary with two keys is never empty, so the form is *)
(* populated whatever was parsed                                            *)
on_parse_specifications(h, specs_text) ==
    IF StripSpace(specs_text) = <<>> THEN h
    ELSE populate_form_from_parsed_data(h, parse_specifications_text(specs_text))

----------------------------------------------------------------------------
(* The parsing functions, called one after the other on the same text.      *)

(* no request worker runs and no table is standardised *)
NoWorker ==
    /\ response_text = <<>>
    /\ df = NoTable
    /\ outcome = "idle"
    /\ data = <<>>
    /\ standardized_data = <<>>
    /\ std_done = FALSE
    /\ restandardized_data = <<>>
    /\ restd_done = FALSE

Text == JoinLines(text_lines)

InitParse ==
    /\ text_lines \in ItemLists
    /\ parsed_data = <<>>
    /\ chat_parsed_data = <<>>
    /\ chat_returned = <<>>
    /\ cleaned_text = <<>>
    /\ pdf_parsed_data = <<>>
    /\ spring_specification = SpringSpecification
    /\ previous_specification = SpringSpecification
    /\ specifications = SpringSpecification
    /\ form = EmptyForm
    /\ settings_calls = <<>>
    /\ handler = "none"
    /\ returned = TRUE
    /\ steps = 0
    /\ NoWorker
    /\ NoLate

(* SpecificationsPanel.parse_specifications_text(text) *)
ParseSpecificationsText ==
    /\ parsed_data = <<>>
    /\ parsed_data' = <<parse_specifications_text(Text)>>
    /\ handler' = "parse_specifications_text"
    /\ previous_specification' = spring_specification
    /\ settings_calls' = <<>>
    /\ UNCHANGED <<text_lines, chat_parsed_data, chat_returned, cleaned_text,
                   pdf_parsed_data, spring_specification, specifications, form,
                   returned, steps>>
    /\ UNCHANGED worker_vars
    /\ UNCHANGED late_vars

(* ChatPanel.parse_spring_specs(text), lines 447-588: it parses and writes  *)
(* what it parsed to the settings service                                   *)
ParseSpringSpecs ==
    /\ parsed_data # <<>>
    /\ chat_returned = <<>>
    /\ LET Applied(parsed, applied) ==
               /\ chat_parsed_data' = <<parsed>>
               /\ chat_returned' = << parsed.basic_info # <<>> \/ parsed.set_points # <<>> >>
               /\ spring_specification' = applied.spec
               /\ settings_calls' = applied.calls
           Parsed(parsed) == Applied(parsed, ChatApply(spring_specification, parsed))
       IN  Parsed(ChatParsedData(Text))
    /\ handler' = "parse_spring_specs"
    /\ previous_specification' = spring_specification
    /\ UNCHANGED <<text_lines, parsed_data, cleaned_text, pdf_parsed_data,
                   specifications, form, returned, steps>>
    /\ UNCHANGED worker_vars
    /\ UNCHANGED late_vars

(* SpecificationsPanel.clean_pdf_text(text) *)
CleanPdfText ==
    /\ chat_returned # <<>>
    /\ cleaned_text = <<>>
    /\ cleaned_text' = <<clean_pdf_text(Text)>>
    /\ handler' = "clean_pdf_text"
    /\ previous_specification' = spring_specification
    /\ settings_calls' = <<>>
    /\ UNCHANGED <<text_lines, parsed_data, chat_parsed_data, chat_returned,
                   pdf_parsed_data, spring_specification, specifications, form,
                   returned, steps>>
    /\ UNCHANGED worker_vars
    /\ UNCHANGED late_vars

(* on_upload_pdf, lines 793-804: the cleaned text is given to the parser *)
ParseCleanedText ==
    /\ cleaned_text # <<>>
    /\ pdf_parsed_data = <<>>
    /\ pdf_parsed_data' = <<parse_specifications_text(cleaned_text[1])>>
    /\ handler' = "parse_specifications_text"
    /\ previous_specification' = spring_specification
    /\ settings_calls' = <<>>
    /\ UNCHANGED <<text_lines, parsed_data, chat_parsed_data, chat_returned,
                   cleaned_text, spring_specification, specifications, form,
                   returned, steps>>
    /\ UNCHANGED worker_vars
    /\ UNCHANGED late_vars

NextParse == ParseSpecificationsText \/ ParseSpringSpecs \/ CleanPdfText \/ ParseCleanedText

SpecParse == InitParse /\ [][NextParse]_vars

----------------------------------------------------------------------------
(* The two panels over one settings service: messages are sent in the chat  *)
(* panel and texts are parsed in the specifications panel, MaxSteps times.  *)

MaxSteps == 3

PanelItems ==
    { TwoLines(PartNameLine, FreeLengthLine), PartIdLine, HelloLine, <<SP>>,
      Block("Poni", <<"1">>, <<":">>, Position1, Load1),
      Block("Point", <<"1">>, <<":">>, Position1, Load1) }

PanelLines == {<<item>> : item \in PanelItems}

(* the settings hold the default specification and MainWindow has built     *)
(* both panels (main_window.py lines 70-72)                                 *)
InitPanel ==
    /\ LET Built(built) ==
               /\ form = built.form
               /\ spring_specification = built.stored
               /\ specifications = built.specifications
               /\ settings_calls = built.calls
               /\ returned = built.returned
       IN  Built(SpecificationsPanel(SpringSpecification))
    /\ previous_specification = SpringSpecification
    /\ handler = "load_specifications"
    /\ text_lines = <<>>
    /\ parsed_data = <<>>
    /\ chat_parsed_data = <<>>
    /\ chat_returned = <<>>
    /\ cleaned_text = <<>>
    /\ pdf_parsed_data = <<>>
    /\ steps = 0
    /\ NoWorker
    /\ NoLate

(* ChatPanel.on_send_clicked, line 228: the message goes through            *)
(* parse_spring_specs; the specifications panel is not told                 *)
OnSendClicked ==
    /\ returned
    /\ steps < MaxSteps
    /\ \E user_input \in PanelLines :
          LET Applied(parsed, applied) ==
                  /\ text_lines' = user_input
                  /\ chat_parsed_data' = <<parsed>>
                  /\ chat_returned' = << parsed.basic_info # <<>> \/ parsed.set_points # <<>> >>
                  /\ spring_specification' = applied.spec
                  /\ settings_calls' = applied.calls
              Parsed(parsed) == Applied(parsed, ChatApply(spring_specification, parsed))
              Sent(message) == StripSpace(message) # <<>> /\ Parsed(ChatParsedData(message))
          IN  Sent(JoinLines(user_input))
    /\ handler' = "parse_spring_specs"
    /\ previous_specification' = spring_specification
    /\ steps' = steps + 1
    /\ UNCHANGED <<parsed_data, cleaned_text, pdf_parsed_data, specifications, form,
                   returned>>
    /\ UNCHANGED worker_vars
    /\ UNCHANGED late_vars

(* SpecificationsPanel.on_parse_specifications, lines 547-565, with all it  *)
(* calls                                                                    *)
OnParseSpecifications ==
    /\ returned
    /\ steps < MaxSteps
    /\ \E specs_text \in PanelLines :
          LET Handled(text, h) ==
                  /\ text_lines' = specs_text
                  /\ parsed_data' = IF StripSpace(text) = <<>> THEN <<>>
                                    ELSE <<parse_specifications_text(text)>>
                  /\ form' = h.form
                  /\ spring_specification' = h.stored
                  /\ specifications' = h.specifications
                  /\ settings_calls' = h.calls
                  /\ returned' = h.returned
              Clicked(text) ==
                  Handled(text, on_parse_specifications(
                                    [form |-> form, stored |-> spring_specification,
                                     specifications |-> specifications, calls |-> <<>>,
                                     returned |-> TRUE],
                                    text))
          IN  Clicked(JoinLines(specs_text))
    /\ handler' = "on_parse_specifications"
    /\ previous_specification' = spring_specification
    /\ steps' = steps + 1
    /\ UNCHANGED <<chat_parsed_data, chat_returned, cleaned_text, pdf_parsed_data>>
    /\ UNCHANGED worker_vars
    /\ UNCHANGED late_vars

NextPanel == OnSendClicked \/ OnParseSpecifications

SpecPanel == InitPanel /\ [][NextPanel]_vars

----------------------------------------------------------------------------
(* Properties of the specification parsers.                                 *)

HeaderLines == TwoLines(PartNameLine, FreeLengthLine)
PointBlock == Block("Point", <<"1">>, <<":">>, Position1, Load1)
PoniBlock == Block("Poni", <<"1">>, <<":">>, Position1, Load1)

(* index 0, position 40.0, load 23.6, tolerance 10.0, enabled *)
ExpectedSetPoint ==
    [index |-> 0, position |-> 4000, load |-> 2360, tolerance |-> 1000, enabled |-> TRUE]

(* C14: for a text with the lines "Set Point-1 in mm: 40.0 mm" and          *)
(* "Set Point-1 Load In N: 23.6±10%" the parser returns exactly the set     *)
(* point with index 0, position 40.0, load 23.6, tolerance 10.0, enabled,   *)
(* and the same when the label is written "Set Poni-1".                     *)
C14_PointSpellingRecognized ==
    (/\ parsed_data # <<>>
     /\ text_lines \in { <<PointBlock>>, <<HeaderLines, PointBlock>>,
                         <<PoniBlock>>, <<HeaderLines, PoniBlock>> })
        => parsed_data[1].set_points = <<ExpectedSetPoint>>

(* what an item of the text gives for the set point labelled n *)
GivesPosition(item, n) ==
    \E word \in {"Point", "Poni"}, colon \in {<<>>, <<":">>},
       position \in {Position1, Position2, Position10}, load \in {Load1, Load2, Load10} :
        \/ item = PositionLine(word, n, colon, position)
        \/ item = Block(word, n, colon, position, load)

GivesLoad(item, n) ==
    \E word \in {"Point", "Poni"}, colon \in {<<>>, <<":">>},
       position \in {Position1, Position2, Position10},
       load \in {Load1, Load2, Load10, <<"2", "3", ".", "6">>} :
        \/ item = LoadLine(word, n, colon, load)
        \/ item = Block(word, n, colon, position, load)

Labels == { <<"1">>, <<"2">>, <<"1", "0">> }

IsCompleteBlock(item) == \E n \in Labels : GivesPosition(item, n) /\ GivesLoad(item, n)
LabelOf(item) == CHOOSE n \in Labels : GivesPosition(item, n) \/ GivesLoad(item, n)

(* the text is k >= 2 complete set-point blocks with distinct labels *)
DistinctCompleteBlocks ==
    /\ Len(text_lines) >= 2
    /\ \A i \in 1..Len(text_lines) : IsCompleteBlock(text_lines[i])
    /\ \A i, j \in 1..Len(text_lines) :
          i # j => LabelOf(text_lines[i]) # LabelOf(text_lines[j])

(* C15: for a text of k >= 2 distinct set-point blocks that each have a     *)
(* position and a load, the parser returns exactly k entries, each with the *)
(* index of its block less one, in ascending order of index whatever the    *)
(* order of the blocks in the text.                                         *)
C15_AllBlocksAscending ==
    (parsed_data # <<>> /\ DistinctCompleteBlocks) =>
        LET set_points == parsed_data[1].set_points
        IN  /\ Len(set_points) = Len(text_lines)
            /\ \A i \in 1..Len(text_lines) :
                  \E k \in 1..Len(set_points) :
                      set_points[k].index = IntOf(LabelOf(text_lines[i])) - 1
            /\ \A k \in 1..(Len(set_points) - 1) :
                  set_points[k].index < set_points[k + 1].index

(* the text gives the set point labelled n a position or a load, not both *)
OnlyHalfGiven(n) ==
    (\E i \in 1..Len(text_lines) : GivesPosition(text_lines[i], n))
        # (\E i \in 1..Len(text_lines) : GivesLoad(text_lines[i], n))

(* C16: a set-point label whose own lines give only a position or only a    *)
(* load produces no entry, whatever other set-point blocks the text has:    *)
(* the missing value is never taken from the block of another label.        *)
C16_HalfBlockOmitted ==
    parsed_data # <<>> =>
        \A n \in Labels :
            OnlyHalfGiven(n) =>
                ~ \E k \in 1..Len(parsed_data[1].set_points) :
                      parsed_data[1].set_points[k].index = IntOf(n) - 1

(* the numeric fields that a line of the texts gives a value which does not *)
(* convert, the line that does so, and the lines that name the field        *)
FailingKeys == {"free_length", "outer_dia"}
BadLine(key) == IF key = "free_length" THEN BadFreeLengthLine ELSE BadOuterDiaLine
LinesNaming(key) ==
    IF key = "free_length" THEN {HeaderLines, BadFreeLengthLine}
    ELSE {OuterDiaLine, BadOuterDiaLine}

(* the value the parser captures for the field is that of the bad line: no  *)
(* line ahead of it names the field                                         *)
BadCaptured(key) ==
    \E i \in 1..Len(text_lines) :
        /\ text_lines[i] = BadLine(key)
        /\ \A j \in 1..(i - 1) : text_lines[j] \notin LinesNaming(key)

(* the text without the lines that give the field the bad value *)
TextWithout(key) == JoinLines(SelectSeq(text_lines, LAMBDA item : item # BadLine(key)))

OtherFields(basic_info, key) == SelectSeq(basic_info, LAMBDA entry : entry[1] # key)

(* the field is absent and all else is as parsed from the other text *)
DroppedAlone(result, key, other) ==
    /\ ~HasKey(result.basic_info, key)
    /\ OtherFields(result.basic_info, key) = OtherFields(other.basic_info, key)
    /\ result.set_points = other.set_points

(* C17 as stated, for both parsers: when the value captured for a numeric   *)
(* basic field does not convert, the field is absent from the result, and   *)
(* every other basic field and every set point is parsed as it would be if  *)
(* the field were not in the text.                                          *)
C17_FailedFieldDropped ==
    \A key \in FailingKeys :
        BadCaptured(key) =>
            /\ parsed_data # <<>> =>
                  DroppedAlone(parsed_data[1], key,
                               parse_specifications_text(TextWithout(key)))
            /\ chat_parsed_data # <<>> =>
                  DroppedAlone(chat_parsed_data[1], key, ChatParsedData(TextWithout(key)))

(* line is one of the lines of text t *)
HasLine(t, line) == \E k \in 1..Len(SplitLines(t)) : SplitLines(t)[k] = line

(* the canonical lines of the basic fields of the texts, and what each      *)
(* gives                                                                    *)
CanonicalBasicLines ==
    { [line |-> <<"Part", SP, "Name", ":", SP, "Demo", SP, "Spring">>,
       key |-> "part_name", value |-> <<"Demo", SP, "Spring">>],
      [line |-> <<"ID", ":", SP, "2", "8">>, key |-> "part_id", value |-> 28],
      [line |-> <<"Free", SP, "Length", ":", SP, "5", "8", ".", "0", SP, "mm">>,
       key |-> "free_length", value |-> 5800],
      [line |-> <<"Free", SP, "Length", ":", SP, "5", ".", "8", SP, "mm">>,
       key |-> "free_length", value |-> 580],
      [line |-> <<"OD", ":", SP, "1", "2", SP, "mm">>, key |-> "outer_dia", value |-> 1200],
      [line |-> <<"OD", ":", SP, "1", ".", "2", SP, "mm">>, key |-> "outer_dia", value |-> 120] }

PositionValues == { <<"4", "0", ".", "0">>, <<"3", "3">>, <<"2", "8">> }
LoadValues == { <<"2", "3", ".", "6">>, <<"3", "4", ".", "1", "4">>, <<"4", "2", ".", "3", "6">> }
ToleranceTexts == { <<"1", "0">>, <<"5">> }

CanonicalPositionLine(n, position) ==
    <<"Set", SP, "Point", "-">> \o n \o <<SP, "in", SP, "mm", ":", SP>> \o position
        \o <<SP, "mm">>
CanonicalLoadLine(n, load, tolerance) ==
    <<"Set", SP, "Point", "-">> \o n \o <<SP, "Load", SP, "In", SP, "N", ":", SP>> \o load
        \o <<"±">> \o tolerance \o <<"%", SP, "N">>

(* C18: every basic field and every complete set point that the cleaner     *)
(* writes as canonical label lines is recovered with the same value by      *)
(* parse_specifications_text applied to the cleaner's output; and for a     *)
(* text in which nothing is recognised and no line has a label keyword the  *)
(* cleaner returns the text unchanged.                                      *)
C18_CleanedTextRecovered ==
    pdf_parsed_data # <<>> =>
        /\ \A c \in CanonicalBasicLines :
              HasLine(cleaned_text[1], c.line) =>
                  /\ HasKey(pdf_parsed_data[1].basic_info, c.key)
                  /\ Get(pdf_parsed_data[1].basic_info, c.key) = c.value
        /\ \A n \in Labels, position \in PositionValues, load \in LoadValues,
              tolerance \in ToleranceTexts :
              (/\ HasLine(cleaned_text[1], CanonicalPositionLine(n, position))
               /\ HasLine(cleaned_text[1], CanonicalLoadLine(n, load, tolerance)))
                  => \E k \in 1..Len(pdf_parsed_data[1].set_points) :
                        pdf_parsed_data[1].set_points[k] =
                            [index |-> IntOf(n) - 1, position |-> FloatOf(position),
                             load |-> FloatOf(load), tolerance |-> FloatOf(tolerance),
                             enabled |-> TRUE]
        /\ (\A i \in 1..Len(text_lines) : text_lines[i] = HelloLine)
              => cleaned_text[1] = Text

----------------------------------------------------------------------------
(* Properties of the handlers that apply parsed data.                       *)

(* the handler that ran last parsed its text and recognised nothing in it *)
NothingRecognised ==
    \/ /\ handler = "on_parse_specifications"
       /\ parsed_data # <<>>
       /\ parsed_data[1] = NothingParsed
    \/ /\ handler = "parse_spring_specs"
       /\ chat_parsed_data # <<>>
       /\ chat_parsed_data[1] = NothingParsed

(* C19: when parsing recognises no basic field and no complete set point,   *)
(* no update, add or delete operation is applied to the stored spring       *)
(* specification and it is the same before and after, on the chat-message   *)
(* path and on the paste-specifications path.                               *)
C19_EmptyResultNoUpdate ==
    NothingRecognised =>
        /\ settings_calls = <<>>
        /\ spring_specification = previous_specification

(* C20: calling a parse function on a text, also one in which fields and    *)
(* set points are recognised, leaves the stored spring specification        *)
(* unchanged and applies no operation of the settings service.              *)
C20_ParsingHasNoEffect ==
    handler \in {"parse_specifications_text", "parse_spring_specs", "clean_pdf_text"} =>
        /\ settings_calls = <<>>
        /\ spring_specification = previous_specification

----------------------------------------------------------------------------
(* utils/text_parser.py: is_sequence_request.  A message is a text of word  *)
(* tokens, digits, punctuation, SP and NL.  The patterns are matched        *)
(* without regard to case.                                                  *)

(* str.lower() of a word of a message *)
LowerWord(tok) ==
    CASE tok = "Generate" -> "generate" [] tok = "Timestamp" -> "timestamp"
      [] tok = "A" -> "a" [] OTHER -> Lower(tok)

(* the tokens that are not word characters: \b is between one of them (or   *)
(* an end of the text) and a word character                                 *)
NonWord == {SP, NL, ",", "?", ":", ".", "=", "-", "#", "<end>"}
Boundary(s, i) == At(s, i) \notin NonWord /\ At(s, i - 1) \in NonWord

(* the words of the messages that start with the given letters *)
StartsWithTest(tok) == LowerWord(tok) \in {"test", "testing"}
StartsWithSequence(tok) == LowerWord(tok) \in {"sequence"}
StartsWithFor(tok) == LowerWord(tok) \in {"for"}
StartsWithSpring(tok) == LowerWord(tok) \in {"spring"}

(* first \s+ second matches at i, the first word whole and at a boundary,   *)
(* the second word as the start of a word                                   *)
TwoWordsAt(s, i, first, Second(_)) ==
    /\ Boundary(s, i)
    /\ LowerWord(At(s, i)) \in first
    /\ IsSpace(At(s, i + 1))
    /\ Second(At(s, SkipSpace(s, i + 1)))

(* (?:test)?\s*sequence matches at i *)
TestSequenceAt(s, i) ==
    \/ StartsWithSequence(At(s, i))
    \/ LowerWord(At(s, i)) = "test" /\ StartsWithSequence(At(s, SkipSpace(s, i + 1)))

(* VERB\s+(?:a|the)?\s+ matches at i and Rest matches after it: without the *)
(* article the two \s+ need two white-space characters                      *)
WithArticleAt(s, i, verbs, Rest(_, _)) ==
    LET After(k) ==
            \/ /\ LowerWord(At(s, k)) \in {"a", "the"}
               /\ IsSpace(At(s, k + 1))
               /\ Rest(s, SkipSpace(s, k + 1))
            \/ k >= i + 3 /\ Rest(s, k)
    IN  /\ Boundary(s, i)
        /\ LowerWord(At(s, i)) \in verbs
        /\ IsSpace(At(s, i + 1))
        /\ After(SkipSpace(s, i + 1))

SpringAt(s, i) == StartsWithSpring(At(s, i))

(* lines 22-31: one of the sequence_keywords matches at i *)
SequenceKeywordAt(s, i) ==
    \/ WithArticleAt(s, i, {"generat", "generate", "generating", "creat", "create",
                            "creating", "mak", "make", "making"}, TestSequenceAt)
    \/ TwoWordsAt(s, i, {"test", "testing"}, StartsWithSequence)
    \/ TwoWordsAt(s, i, {"sequence"}, StartsWithFor)
    \/ TwoWordsAt(s, i, {"spring"}, StartsWithTest)
    \/ TwoWordsAt(s, i, {"compression"}, StartsWithTest)
    \/ TwoWordsAt(s, i, {"tension"}, StartsWithTest)
    \/ TwoWordsAt(s, i, {"displacement", "deflection", "height"}, StartsWithTest)
    \/ WithArticleAt(s, i, {"measure", "measuring"}, SpringAt)

(* lines 34-36 *)
MatchesSequenceKeyword(text) == \E i \in 1..Len(text) : SequenceKeywordAt(text, i)

(* lines 39-42: the words of the messages that start with compress, push,   *)
(* deflect or deformation, and with tens, extend, pull, stretch or          *)
(* extension                                                                *)
IsTestTypeKeyword(tok) ==
    LowerWord(tok) \in {"compression", "deflection", "tension"}

(* lines 45-49 *)
MatchesTestWithType(text) ==
    /\ \E i \in 1..Len(text) : Boundary(text, i) /\ StartsWithTest(text[i])
    /\ \E i \in 1..Len(text) : Boundary(text, i) /\ IsTestTypeKeyword(text[i])

(* the words, one blank between them, match at i *)
RECURSIVE PhraseAt(_, _, _)
PhraseAt(s, i, words) ==
    IF Len(words) = 1 THEN LowerWord(At(s, i)) = words[1]
    ELSE /\ LowerWord(At(s, i)) = words[1]
         /\ At(s, i + 1) = SP
         /\ PhraseAt(s, i + 2, Tail(words))

(* lines 52-58: the conversation_patterns; the words of the messages that   *)
(* start with hi, hello, hey or greetings are hello                         *)
MatchesConversation(text) ==
    \/ LowerWord(At(text, 1)) \in {"hi", "hello", "hey", "greetings"}
    \/ \E phrase \in { <<"how", "are", "you">>, <<"what", "can", "you", "do">>,
                       <<"who", "are", "you">> } : PhraseAt(text, 1, phrase)
    \/ \E i \in 1..Len(text) :
          /\ Boundary(text, i)
          /\ \E phrase \in { <<"explain">>, <<"tell", "me", "about">>, <<"what", "is">>,
                             <<"how", "does">>, <<"thanks">>, <<"thank", "you">>,
                             <<"good", "job">> } : PhraseAt(text, i, phrase)
    \/ At(text, 1) = "?"

(* utils/constants.py lines 69-81, PARAMETER_PATTERNS in the order of the   *)
(* dictionary: the words of the label, whether the second word may be left  *)
(* out, the separators, and whether a number is captured                    *)
ParameterPattern(key, first, second, optional, seps, numeric) ==
    [key |-> key, first |-> first, second |-> second, optional |-> optional,
     seps |-> seps, numeric |-> numeric]

PARAMETER_PATTERNS ==
    << ParameterPattern("Free Length", {"free"}, {"length"}, FALSE, {"=", ":", "is", "of"}, TRUE),
       ParameterPattern("Part Number", {"part"}, {"number", "#", "no"}, TRUE, {"=", ":", "is"}, FALSE),
       ParameterPattern("Model Number", {"model"}, {"number", "#", "no"}, TRUE, {"=", ":", "is"}, FALSE),
       ParameterPattern("Wire Diameter", {"wire"}, {"diameter", "thickness"}, TRUE, {"=", ":", "is"}, TRUE),
       ParameterPattern("Outer Diameter", {"outer", "outside"}, {"diameter"}, FALSE, {"=", ":", "is"}, TRUE),
       ParameterPattern("Inner Diameter", {"inner", "inside"}, {"diameter"}, FALSE, {"=", ":", "is"}, TRUE),
       ParameterPattern("Spring Rate", {"spring", "target"}, {"rate"}, FALSE, {"=", ":", "is"}, TRUE),
       ParameterPattern("Test Load", {"test", "target"}, {"load"}, FALSE, {"=", ":", "is"}, TRUE),
       ParameterPattern("Deflection", {"deflection"}, {}, TRUE, {"=", ":", "is"}, TRUE),
       ParameterPattern("Working Length", {"working"}, {"length"}, FALSE, {"=", ":", "is"}, TRUE),
       ParameterPattern("Customer ID", {"customer"}, {"id", "number"}, TRUE, {"=", ":", "is"}, FALSE) >>

(* what group 1 of a pattern may hold: \d+\.?\d* starts with a digit,       *)
(* [A-Za-z0-9-_]+ is a run of words, digits, - and _, and [A-Za-z0-9\s]+ a  *)
(* run of words, digits and white space                                     *)
InGroup(pattern, tok) ==
    IF pattern.numeric THEN IsDigit(tok)
    ELSE IF pattern.key = "Customer ID" THEN tok \notin (NonWord \ {SP, NL}) /\ tok # "_"
    ELSE tok \notin (NonWord \ {"-"})

RECURSIVE GroupEnd(_, _, _)
GroupEnd(s, v, pattern) ==
    IF InGroup(pattern, At(s, v + 1)) /\ v < Len(s) THEN GroupEnd(s, v + 1, pattern) ELSE v

(* the pattern matches at i: where group 1 starts, 0 if it does not match.  *)
(* After the label come \s*, one separator or none, and \s*.                *)
ParameterStart(s, i, pattern) ==
    LET Group(v) == IF v <= Len(s) /\ InGroup(pattern, At(s, v)) THEN v ELSE 0
        Separator(a) ==
            IF LowerWord(At(s, a)) \in pattern.seps /\ Group(SkipSpace(s, a + 1)) # 0
              THEN Group(SkipSpace(s, a + 1))
              ELSE Group(a)
        Second(b) ==
            IF LowerWord(At(s, b)) \in pattern.second /\ Separator(SkipSpace(s, b + 1)) # 0
              THEN Separator(SkipSpace(s, b + 1))
              ELSE IF pattern.optional THEN Separator(b) ELSE 0
    IN  IF LowerWord(At(s, i)) \in pattern.first THEN Second(SkipSpace(s, i + 1)) ELSE 0

(* re.search(pattern, text, re.IGNORECASE) and match.group(1).strip() *)
ParameterMatch(s, pattern) ==
    LET Captured(v) ==
            Match(StripSpace(SubSeq(s, v, IF pattern.numeric THEN PdfNumberEnd(s, v)
                                          ELSE GroupEnd(s, v, pattern))), <<>>)
        First(hits) ==
            IF hits = {} THEN NoMatch ELSE Captured(ParameterStart(s, Min(hits), pattern))
    IN  First({i \in 1..Len(s) : ParameterStart(s, i, pattern) # 0})

(* lines 67-70 *)
parameter_count(text) ==
    Cardinality({n \in 1..Len(PARAMETER_PATTERNS) :
                    ParameterMatch(text, PARAMETER_PATTERNS[n]).found})

(* the conversational patterns are tested ahead of the sequence keywords *)
is_sequence_request_conversation_first(text) ==
    IF MatchesConversation(text) THEN FALSE
    ELSE IF MatchesSequenceKeyword(text) THEN TRUE
    ELSE IF MatchesTestWithType(text) THEN TRUE
    ELSE parameter_count(text) >= 2

(* lines 11-77 *)
is_sequence_request(text) ==
    IF MatchesSequenceKeyword(text) THEN TRUE
    ELSE IF MatchesTestWithType(text) THEN TRUE
    ELSE IF MatchesConversation(text) THEN FALSE
    ELSE parameter_count(text) >= 2

----------------------------------------------------------------------------
(* utils/text_parser.py: extract_parameters and format_parameter_text.  A   *)
(* parameter map is a sequence of <<key, value>> in the order of insertion; *)
(* a value is a float, in hundredths, or a text.                            *)

FloatValue(number) == [is_float |-> TRUE, number |-> number, text |-> <<>>]
TextValue(text) == [is_float |-> FALSE, number |-> 0, text |-> text]

(* datetime.now().strftime(...): some text of digits, dashes and colons *)
Now == <<"<now>">>

(* lines 93-99: the whole words of the patterns *)
CompressionWords ==
    {"compress", "compression", "comp", "compressive", "pushing", "push", "pressing",
     "press"}
TensionWords ==
    {"tens", "tension", "extension", "extend", "tensile", "extending", "pulling", "pull",
     "stretching", "stretch"}

HasWholeWord(text, words) ==
    \E i \in 1..Len(text) :
        /\ LowerWord(text[i]) \in words
        /\ At(text, i - 1) \in NonWord
        /\ At(text, i + 1) \in NonWord

TestType(text) ==
    IF HasWholeWord(text, CompressionWords)
      THEN << <<"Test Type", TextValue(<<"Compression">>)>> >>
    ELSE IF HasWholeWord(text, TensionWords)
      THEN << <<"Test Type", TextValue(<<"Tension">>)>> >>
    ELSE <<>>

(* lines 102-112: float(value) of the digits \d+\.?\d* never fails *)
RECURSIVE ExtractedFrom(_, _)
ExtractedFrom(text, n) ==
    LET Entry(pattern, m) ==
            IF ~m.found THEN <<>>
            ELSE IF pattern.numeric THEN << <<pattern.key, FloatValue(FloatOf(m.value))>> >>
            ELSE << <<pattern.key, TextValue(m.value)>> >>
        Searched(pattern) == Entry(pattern, ParameterMatch(text, pattern))
    IN  IF n > Len(PARAMETER_PATTERNS) THEN <<>>
        ELSE Searched(PARAMETER_PATTERNS[n]) \o ExtractedFrom(text, n + 1)

(* lines 80-119 *)
extract_parameters(text) ==
    TestType(text) \o ExtractedFrom(text, 1)
    \o << <<"Timestamp", TextValue(Now)>>, <<"prompt", TextValue(text)>> >>

(* the characters of a key *)
KeyText(key) ==
    CASE key = "Test Type" -> <<"Test", SP, "Type">>
      [] key = "Free Length" -> <<"Free", SP, "Length">>
      [] key = "Part Number" -> <<"Part", SP, "Number">>
      [] key = "Model Number" -> <<"Model", SP, "Number">>
      [] key = "Wire Diameter" -> <<"Wire", SP, "Diameter">>
      [] key = "Outer Diameter" -> <<"Outer", SP, "Diameter">>
      [] key = "Inner Diameter" -> <<"Inner", SP, "Diameter">>
      [] key = "Spring Rate" -> <<"Spring", SP, "Rate">>
      [] key = "Test Load" -> <<"Test", SP, "Load">>
      [] key = "Deflection" -> <<"Deflection">>
      [] key = "Working Length" -> <<"Working", SP, "Length">>
      [] key = "Customer ID" -> <<"Customer", SP, "ID">>
      [] key = "Timestamp" -> <<"Timestamp">>
      [] key = "prompt" -> <<"prompt">>

(* n written with at least width digits *)
RECURSIVE Padded(_, _)
Padded(n, width) ==
    IF width <= 1 THEN Str(n)
    ELSE Padded(n \div 10, width - 1) \o <<DigitText(n % 10)>>

(* lines 285-290: three decimals under 0.1, two under 1, one from 1 on; a   *)
(* number of hundredths is rounded to tenths                                *)
FormatFloat(number) ==
    IF number < 10 THEN <<"0", ".">> \o Padded(number * 10, 3)
    ELSE IF number < 100 THEN <<"0", ".">> \o Padded(number, 2)
    ELSE Str(((number + 5) \div 10) \div 10) \o <<".", DigitText(((number + 5) \div 10) % 10)>>

(* lines 293-298: the unit that follows a float *)
UnitOf(key) ==
    CASE key \in {"Free Length", "Working Length", "Wire Diameter", "Outer Diameter",
                  "Inner Diameter"} -> <<SP, "mm">>
      [] key = "Test Load" -> <<SP, "N">>
      [] key = "Spring Rate" -> <<SP, "N/mm">>
      [] OTHER -> <<>>

(* lines 277-304: the line of one entry; the timestamp is skipped *)
ParameterLines(key, value) ==
    IF key = "Timestamp" THEN <<>>
    ELSE << KeyText(key) \o <<":", SP>>
            \o (IF value.is_float THEN FormatFloat(value.number) \o UnitOf(key)
                ELSE value.text) >>

RECURSIVE AllParameterLines(_)
AllParameterLines(params) ==
    IF params = <<>> THEN <<>>
    ELSE ParameterLines(Head(params)[1], Head(params)[2]) \o AllParameterLines(Tail(params))

(* lines 266-306 *)
format_parameter_text(params) == JoinLines(AllParameterLines(params))

----------------------------------------------------------------------------
(* The messages: the two sentences of the specification, and up to          *)
(* MaxPhrases phrases on one line or on a line each.                        *)

MaxPhrases == 2

HelloSentence == <<"hello", ",", SP, "how", SP, "are", SP, "you", "?">>
GenerateSentence ==
    <<"Generate", SP, "a", SP, "test", SP, "sequence", SP, "for", SP, "a", SP,
      "compression", SP, "spring", SP, "with", SP, "free", SP, "length", SP,
      "5", "0", "mm">>

Phrases ==
    { <<"hello">>, <<"thanks">>, <<"?">>, <<"what", SP, "is">>,
      <<"test">>, <<"compression">>, <<"tension">>, <<"spring">>,
      <<"make", SP, "a", SP, "sequence">>,
      <<"Free", SP, "Length", ":", SP, "5", "0", ".", "0", SP, "mm">>,
      <<"wire", SP, "diameter", SP, "2", ".", "5", "mm", ",", SP,
        "deflection", SP, "is", SP, "0", ".", "5">>,
      <<"part", SP, "number", SP, "A", "-", "1">>,
      <<"Timestamp", ":", SP, "now">> }

RECURSIVE JoinWith(_, _)
JoinWith(phrases, sep) ==
    IF Len(phrases) = 1 THEN phrases[1]
    ELSE phrases[1] \o <<sep>> \o JoinWith(Tail(phrases), sep)

Prompts ==
    {HelloSentence, GenerateSentence}
    \cup {JoinWith(phrases, sep) :
             phrases \in UNION {[1..n -> Phrases] : n \in 1..MaxPhrases}, sep \in {SP, NL}}

InitRequest ==
    /\ prompt \in Prompts
    /\ is_request = <<>>
    /\ parameters = <<>>
    /\ parameter_text = <<>>
    /\ NoWorker
    /\ NoPanel
    /\ NoClient
    /\ NoChat
    /\ last_call = <<>>

(* is_sequence_request(text) *)
IsSequenceRequest ==
    /\ prompt # <<>>
    /\ is_request = <<>>
    /\ is_request' = <<is_sequence_request(prompt)>>
    /\ UNCHANGED <<prompt, parameters, parameter_text>>
    /\ UNCHANGED <<worker_vars, parser_vars, client_vars, last_call, chat_vars>>

(* extract_parameters(user_input), chat_panel.py line 214 *)
ExtractParameters ==
    /\ is_request # <<>>
    /\ parameters = <<>>
    /\ parameters' = <<extract_parameters(prompt)>>
    /\ UNCHANGED <<prompt, is_request, parameter_text>>
    /\ UNCHANGED <<worker_vars, parser_vars, client_vars, last_call, chat_vars>>

(* format_parameter_text(self.parameters), api_client.py line 49 *)
FormatParameterText ==
    /\ parameters # <<>>
    /\ parameter_text = <<>>
    /\ parameter_text' = <<format_parameter_text(parameters[1])>>
    /\ UNCHANGED <<prompt, is_request, parameters>>
    /\ UNCHANGED <<worker_vars, parser_vars, client_vars, last_call, chat_vars>>

NextRequest == IsSequenceRequest \/ ExtractParameters \/ FormatParameterText

SpecRequest == InitRequest /\ [][NextRequest]_vars

(* the lines of the rendered text *)
RenderedLines == SplitLines(parameter_text[1])

(* the rendered lines that read "Key: ..." for the key *)
LinesOfKey(key) ==
    {i \in 1..Len(RenderedLines) :
        LET label == KeyText(key) \o <<":", SP>>
        IN  /\ Len(RenderedLines[i]) >= Len(label)
            /\ SubSeq(RenderedLines[i], 1, Len(label)) = label}

(* C21: is_sequence_request follows the priority order: a direct sequence   *)
(* phrasing, or the word test with a compression or tension keyword, gives  *)
(* true even if a conversational pattern matches too; otherwise a           *)
(* conversational pattern gives false even if two or more parameter         *)
(* patterns match; otherwise the result is true exactly when at least two   *)
(* parameter patterns match.  "hello, how are you?" gives false and         *)
(* "Generate a test sequence for a compression spring with free length      *)
(* 50mm" gives true.                                                        *)
C21_PriorityOrder ==
    LET direct == MatchesSequenceKeyword(prompt) \/ MatchesTestWithType(prompt)
        conversational == MatchesConversation(prompt)
    IN  is_request # <<>> =>
            /\ (direct => is_request[1] = TRUE)
            /\ (~direct /\ conversational => is_request[1] = FALSE)
            /\ (~direct /\ ~conversational
                   => is_request[1] = (parameter_count(prompt) >= 2))
            /\ (prompt = HelloSentence => is_request[1] = FALSE)
            /\ (prompt = GenerateSentence => is_request[1] = TRUE)

(* a greeting followed by a direct sequence phrasing has been classified *)
C21_Witness ==
    /\ is_request = <<TRUE>>
    /\ MatchesConversation(prompt)
    /\ MatchesSequenceKeyword(prompt)

(* C22: rendering the extracted parameter map gives every key other than    *)
(* the timestamp as a "Key: value" line exactly once and no timestamp line, *)
(* also when the prompt spans several lines that look like such lines.      *)
C22_EveryKeyOnceNoTimestamp ==
    parameter_text # <<>> =>
        /\ \A n \in 1..Len(parameters[1]) :
              parameters[1][n][1] # "Timestamp"
                  => Cardinality(LinesOfKey(parameters[1][n][1])) = 1
        /\ LinesOfKey("Timestamp") = {}

----------------------------------------------------------------------------
(* utils/api_client.py: APIClient and the threads of its workers.  A worker *)
(* is a record; its pc is the place of its thread in APIClientWorker.run.   *)
(* The summary of the request of worker w is the number MemoryLimit + w;    *)
(* the summaries of the requests completed before are 1..MemoryLimit.       *)

MemoryLimit == 10
MaxRequests == 2
MaxRetries == 2

WorkerIds == 1..MaxRequests

Summary(w) == MemoryLimit + w

(* the last n elements, lst[-n:] *)
LastN(lst, n) == IF Len(lst) <= n THEN lst ELSE SubSeq(lst, Len(lst) - n + 1, Len(lst))

RECURSIVE Power2(_)
Power2(n) == IF n = 0 THEN 1 ELSE 2 * Power2(n - 1)

(* lines 25-40: APIClientWorker(api_client, parameters, model, temperature, *)
(* max_retries); df is not bound until a response has been processed        *)
APIClientWorker(max_retries) ==
    [pc |-> "loop", max_retries |-> max_retries, attempt |-> 0, is_cancelled |-> FALSE,
     df |-> "unbound", error_message |-> "", sliced |-> <<>>, posts |-> 0,
     backoff_time |-> 0, slept |-> 0, finished |-> <<>>]

(* the chat memory of a client that has completed n requests one by one *)
MemoryAfter(n) == [i \in 1..n |-> i]

InitClient ==
    /\ chat_memory \in {MemoryAfter(n) : n \in {0, MemoryLimit - 1, MemoryLimit}}
    /\ workers = <<>>
    /\ current_worker = 0
    /\ completed = chat_memory
    /\ NoWorker
    /\ NoPanel
    /\ NoRequest
    /\ NoChat
    /\ last_call = <<>>

(* lines 42-44: APIClientWorker.cancel *)
cancel(ws, w) == IF w = 0 THEN ws ELSE [ws EXCEPT ![w].is_cancelled = TRUE]

(* the worker with one more request attempt started *)
Posting(worker) == [worker EXCEPT !.pc = "post", !.posts = @ + 1]

(* lines 326-346: generate_sequence_async cancels the current worker, makes *)
(* a new one and starts its thread                                          *)
GenerateSequenceAsync(max_retries) ==
    /\ Len(workers) < MaxRequests
    /\ workers' = Append(cancel(workers, current_worker), APIClientWorker(max_retries))
    /\ current_worker' = Len(workers) + 1
    /\ UNCHANGED <<chat_memory, completed>>
    /\ UNCHANGED <<worker_vars, parser_vars, request_vars, last_call, chat_vars>>

(* lines 348-358: cancel_current_operation *)
CancelCurrentOperation ==
    /\ current_worker # 0
    /\ workers' = cancel(workers, current_worker)
    /\ current_worker' = 0
    /\ UNCHANGED <<chat_memory, completed>>
    /\ UNCHANGED <<worker_vars, parser_vars, request_vars, last_call, chat_vars>>

(* run has ended, by a return or by an exception: its local variables and  *)
(* the counts of its attempts are gone                                      *)
Ended(worker, pc) ==
    [APIClientWorker(worker.max_retries) EXCEPT !.pc = pc,
                                                !.is_cancelled = worker.is_cancelled,
                                                !.finished = worker.finished]

(* finished.emit(df, error_message) as the last statement of run *)
Emitted(worker, table, error_message) ==
    Ended([worker EXCEPT !.finished = Append(@, <<table, error_message>>)], "done")

(* lines 110-117: the head of the retry loop, up to session.post *)
LoopHead(w) ==
    /\ workers[w].pc = "loop"
    /\ workers' =
          [workers EXCEPT ![w] =
              IF @.attempt >= @.max_retries THEN [@ EXCEPT !.pc = "emit"]
              ELSE IF @.is_cancelled THEN Emitted(@, "empty", "Operation cancelled")
              ELSE Posting(@)]
    /\ UNCHANGED <<chat_memory, current_worker, completed>>
    /\ UNCHANGED <<worker_vars, parser_vars, request_vars, last_call, chat_vars>>

(* lines 119-134: the response has come and has a message; its summary is   *)
(* appended to the memory                                                   *)
ResponseReceived(w) ==
    /\ workers[w].pc = "post"
    /\ chat_memory' = Append(chat_memory, Summary(w))
    /\ completed' = Append(completed, Summary(w))
    /\ workers' = [workers EXCEPT ![w].pc = "trim"]
    /\ UNCHANGED current_worker
    /\ UNCHANGED <<worker_vars, parser_vars, request_vars, last_call, chat_vars>>

(* line 135 and the right side of line 136: the memory is read *)
ReadMemory(w) ==
    /\ workers[w].pc = "trim"
    /\ workers' =
          [workers EXCEPT ![w] =
              IF Len(chat_memory) > MemoryLimit
                THEN [@ EXCEPT !.pc = "store", !.sliced = LastN(chat_memory, MemoryLimit)]
                ELSE [@ EXCEPT !.pc = "emit", !.df = "table"]]
    /\ UNCHANGED <<chat_memory, current_worker, completed>>
    /\ UNCHANGED <<worker_vars, parser_vars, request_vars, last_call, chat_vars>>

(* the left side of line 136, then lines 139-249 bind df *)
StoreMemory(w) ==
    /\ workers[w].pc = "store"
    /\ chat_memory' = workers[w].sliced
    /\ workers' = [workers EXCEPT ![w].pc = "emit", ![w].df = "table", ![w].sliced = <<>>]
    /\ UNCHANGED <<current_worker, completed>>
    /\ UNCHANGED <<worker_vars, parser_vars, request_vars, last_call, chat_vars>>

(* lines 251-259: session.post or raise_for_status raises a                 *)
(* RequestException; the worker sleeps unless this was the last attempt or  *)
(* it is cancelled                                                          *)
(* the worker sleeps after its last attempt too *)
AfterRequestErrorAlwaysSleeping(worker) ==
    IF ~worker.is_cancelled
      THEN [worker EXCEPT !.pc = "sleep", !.error_message = "Request error",
                          !.backoff_time = Power2(worker.attempt)]
      ELSE [worker EXCEPT !.pc = "loop", !.error_message = "Request error",
                          !.attempt = @ + 1]

(* lines 251-259 *)
AfterRequestError(worker) ==
    IF worker.attempt < worker.max_retries - 1 /\ ~worker.is_cancelled
      THEN [worker EXCEPT !.pc = "sleep", !.error_message = "Request error",
                          !.backoff_time = Power2(worker.attempt)]
      ELSE [worker EXCEPT !.pc = "loop", !.error_message = "Request error",
                          !.attempt = @ + 1]

RequestError(w) ==
    /\ workers[w].pc = "post"
    /\ workers' = [workers EXCEPT ![w] = AfterRequestError(@)]
    /\ UNCHANGED <<chat_memory, current_worker, completed>>
    /\ UNCHANGED <<worker_vars, parser_vars, request_vars, last_call, chat_vars>>

(* line 259: time.sleep(backoff_time) returns *)
Wake(w) ==
    /\ workers[w].pc = "sleep"
    /\ workers' = [workers EXCEPT ![w].pc = "loop", ![w].attempt = @ + 1,
                                  ![w].slept = @ + workers[w].backoff_time]
    /\ UNCHANGED <<chat_memory, current_worker, completed>>
    /\ UNCHANGED <<worker_vars, parser_vars, request_vars, last_call, chat_vars>>

(* lines 260-263: the response has no choices: KeyError, no retry *)
ParsingError(w) ==
    /\ workers[w].pc = "post"
    /\ workers' = [workers EXCEPT ![w].pc = "emit",
                                  ![w].error_message = "Response parsing error"]
    /\ UNCHANGED <<chat_memory, current_worker, completed>>
    /\ UNCHANGED <<worker_vars, parser_vars, request_vars, last_call, chat_vars>>

(* lines 265-268: self.finished.emit(df, error_message); reading a df that  *)
(* was never bound raises UnboundLocalError and ends the thread             *)
EmitFinished(w) ==
    /\ workers[w].pc = "emit"
    /\ workers' =
          [workers EXCEPT ![w] =
              IF @.df = "unbound" THEN Ended(@, "raised")
              ELSE Emitted(@, @.df, @.error_message)]
    /\ UNCHANGED <<chat_memory, current_worker, completed>>
    /\ UNCHANGED <<worker_vars, parser_vars, request_vars, last_call, chat_vars>>

(* one step of the thread of worker w *)
WorkerStep(w) ==
    \/ LoopHead(w)
    \/ ResponseReceived(w)
    \/ ReadMemory(w)
    \/ StoreMemory(w)
    \/ RequestError(w)
    \/ Wake(w)
    \/ ParsingError(w)
    \/ EmitFinished(w)

NextClient ==
    \/ \E max_retries \in {0, 1, MaxRetries} : GenerateSequenceAsync(max_retries)
    \/ CancelCurrentOperation
    \/ \E w \in 1..Len(workers) : LoopHead(w)
    \/ \E w \in 1..Len(workers) : ResponseReceived(w)
    \/ \E w \in 1..Len(workers) : ReadMemory(w)
    \/ \E w \in 1..Len(workers) : StoreMemory(w)
    \/ \E w \in 1..Len(workers) : RequestError(w)
    \/ \E w \in 1..Len(workers) : Wake(w)
    \/ \E w \in 1..Len(workers) : ParsingError(w)
    \/ \E w \in 1..Len(workers) : EmitFinished(w)

SpecClient == InitClient /\ [][NextClient]_vars

(* every thread that can take a step takes one in the end: the interpreter  *)
(* schedules every thread, a request ends within its timeout of 60 seconds  *)
(* and a sleep ends                                                         *)
SpecClientLive == SpecClient /\ \A w \in WorkerIds : WF_vars(w <= Len(workers) /\ WorkerStep(w))

(* no thread is between the append of line 134 and the end of line 136 *)
MemoryAtRest == \A w \in 1..Len(workers) : workers[w].pc \notin {"trim", "store"}

(* C23: chat_memory holds at most 10 entries, the oldest evicted first:     *)
(* after any sequence of completed requests, also of requests whose workers *)
(* ran concurrently, the memory is exactly the most recent (up to 10)       *)
(* summaries of the completed requests in completion order, and no          *)
(* completed request's summary is lost.                                     *)
C23_MemoryIsLastTenCompleted ==
    MemoryAtRest =>
        /\ Len(chat_memory) <= MemoryLimit
        /\ chat_memory = LastN(completed, MemoryLimit)

(* C25: every run of the request worker eventually emits finished exactly   *)
(* once, whatever the outcome (success, cancellation, every attempt failing *)
(* with a request error, a response-parsing error, max_retries = 0), so the *)
(* synchronous generate_sequence, which waits for it, always returns.       *)
C25_FinishedExactlyOnce ==
    \A w \in WorkerIds :
        /\ [](w <= Len(workers) => Len(workers[w].finished) <= 1)
        /\ (w <= Len(workers)) ~> (w <= Len(workers) /\ Len(workers[w].finished) = 1)

(* C26: once a request has been cancelled, its callback is never invoked   *)
(* with a non-empty table: the cancelled worker reports an empty table with *)
(* "Operation cancelled" or nothing, whenever the cancellation arrives.     *)
C26_CancelledNeverReportsTable ==
    [][\A w \in 1..Len(workers) :
          workers[w].is_cancelled /\ workers'[w].finished # workers[w].finished
              => workers'[w].finished = <<<<"empty", "Operation cancelled">>>>]_vars

----------------------------------------------------------------------------
(* services/settings_service.py: the set-point operations, called one after *)
(* another on the stored specification.                                     *)

Call(name, index, position, load, tolerance, enabled) ==
    [name |-> name, index |-> index, position |-> position, load |-> load,
     tolerance |-> tolerance, enabled |-> enabled]

InitSettings ==
    /\ spring_specification = SpringSpecification
    /\ previous_specification = SpringSpecification
    /\ last_call = <<>>
    /\ specifications = <<>>
    /\ form = <<>>
    /\ settings_calls = <<>>
    /\ handler = "none"
    /\ returned = TRUE
    /\ steps = 0
    /\ text_lines = <<>>
    /\ parsed_data = <<>>
    /\ chat_parsed_data = <<>>
    /\ chat_returned = <<>>
    /\ cleaned_text = <<>>
    /\ pdf_parsed_data = <<>>
    /\ NoWorker
    /\ NoRequest
    /\ NoClient
    /\ NoChat

(* the specification is replaced by what the operation stores *)
SettingsCall(call, spec) ==
    /\ steps < MaxSteps
    /\ steps' = steps + 1
    /\ previous_specification' = spring_specification
    /\ spring_specification' = spec
    /\ last_call' = <<call>>
    /\ handler' = call.name
    /\ settings_calls' = <<call.name>>
    /\ UNCHANGED <<text_lines, parsed_data, chat_parsed_data, chat_returned, cleaned_text,
                   pdf_parsed_data, specifications, form, returned>>
    /\ UNCHANGED <<worker_vars, request_vars, client_vars, chat_vars>>

(* lines 248-270 *)
UpdateSetPoint(index, position, load, tolerance, enabled) ==
    SettingsCall(Call("update_set_point", index, position, load, tolerance, enabled),
                 update_set_point(spring_specification, index, position, load, tolerance,
                                  enabled))

(* lines 272-282 *)
DeleteSetPoint(index) ==
    SettingsCall(Call("delete_set_point", index, 0, 0, 0, FALSE),
                 delete_set_point(spring_specification, index))

(* lines 284-288 *)
AddSetPoint ==
    SettingsCall(Call("add_set_point", 0, 0, 0, 0, FALSE),
                 add_set_point(spring_specification))

(* the indices given: one before the first set point to one after the last *)
GivenIndices == -1..Len(spring_specification.set_points)

NextSettings ==
    \/ \E index \in GivenIndices, enabled \in BOOLEAN :
          /\ index >= 0 \/ spring_specification.set_points # <<>>
          /\ UpdateSetPoint(index, 1250, 975, 500, enabled)
    \/ \E index \in GivenIndices : DeleteSetPoint(index)
    \/ AddSetPoint

SpecSettings == InitSettings /\ [][NextSettings]_vars

(* C24: index-addressed set-point operations affect only the addressed set  *)
(* point: delete_set_point(i) with 0 <= i < n removes exactly the i-th set  *)
(* point, the others keep their values and order and those after i move     *)
(* down by one; out of range it changes nothing; update_set_point(i, ...)   *)
(* with 0 <= i < n changes only set point i and keeps the count;            *)
(* add_set_point appends one default set point (0, 0, tolerance 10,         *)
(* enabled) and changes no other.                                           *)
C24_OnlyAddressedSetPoint ==
    LET before == previous_specification.set_points
        after == spring_specification.set_points
        Framed(c, n) ==
            /\ [spring_specification EXCEPT !.set_points = before] = previous_specification
            /\ c.name = "delete_set_point" /\ 0 <= c.index /\ c.index < n
                  => /\ Len(after) = n - 1
                     /\ \A k \in 1..(n - 1) :
                           after[k] = before[IF k <= c.index THEN k ELSE k + 1]
            /\ c.name = "delete_set_point" /\ (c.index < 0 \/ c.index >= n)
                  => after = before
            /\ c.name = "update_set_point" /\ 0 <= c.index /\ c.index < n
                  => /\ Len(after) = n
                     /\ \A k \in 1..n : k # c.index + 1 => after[k] = before[k]
                     /\ after[c.index + 1] =
                           [position_mm |-> c.position, load_n |-> c.load,
                            tolerance_percent |-> c.tolerance, enabled |-> c.enabled]
            /\ c.name = "add_set_point"
                  => /\ Len(after) = n + 1
                     /\ \A k \in 1..n : after[k] = before[k]
                     /\ after[n + 1] =
                           [position_mm |-> 0, load_n |-> 0, tolerance_percent |-> 1000,
                            enabled |-> TRUE]
    IN  last_call # <<>> => Framed(last_call[1], Len(before))

(* a set point that had others after it has been deleted *)
C24_Witness ==
    /\ last_call # <<>>
    /\ last_call[1].name = "delete_set_point"
    /\ last_call[1].index >= 0
    /\ last_call[1].index + 1 < Len(previous_specification.set_points)
    /\ Len(spring_specification.set_points) = Len(previous_specification.set_points) - 1

----------------------------------------------------------------------------
(* services/chat_service.py: ChatService and its history file.  The k-th    *)
(* operation's message has the content k.                                   *)

MaxHistory == 2
MaxCalls == 5

(* lst[-n:]: for n = 0 the index -0 is 0 and the slice is the whole list *)
SliceFromMinus(lst, n) == IF n = 0 THEN lst ELSE LastN(lst, n)

(* lines 67-84 *)
add_message(messages, limit, message) ==
    IF Len(messages) + 1 > limit
      THEN SliceFromMinus(Append(messages, message), limit)
      ELSE Append(messages, message)

(* lines 98-133: no file, or an empty one, leaves the history as it is *)
load_history(messages, file) ==
    IF file = <<>> THEN messages
    ELSE IF file[1] = <<>> THEN messages
    ELSE file[1]

(* lines 135-179: an empty history is not written; an empty file is made    *)
(* only if there is none                                                    *)
save_history(messages, file) ==
    IF messages = <<>>
      THEN IF file = <<>> THEN << <<>> >> ELSE file
      ELSE <<messages>>

(* lines 23-36: ChatService(settings_service, max_history) on a machine     *)
(* with no history file; load_history finds none                            *)
InitChat ==
    /\ max_history \in 0..MaxHistory
    /\ history = <<>>
    /\ history_file = <<>>
    /\ previous_history = <<>>
    /\ saved_history = <<>>
    /\ last_call = <<>>
    /\ NoWorker
    /\ NoPanel
    /\ NoRequest
    /\ NoClient

(* the number of operations called so far *)
Calls == IF last_call = <<>> THEN 0 ELSE last_call[1].calls

(* one operation of the service *)
ChatCall(name, message, messages, file) ==
    /\ Calls < MaxCalls
    /\ last_call' = <<[name |-> name, message |-> message, calls |-> Calls + 1]>>
    /\ previous_history' = history
    /\ history' = messages
    /\ history_file' = file
    /\ saved_history' = IF name = "save_history" THEN <<history>> ELSE saved_history
    /\ UNCHANGED max_history
    /\ UNCHANGED <<worker_vars, parser_vars, request_vars, client_vars>>

AddMessage(role) ==
    LET Added(message) ==
            ChatCall("add_message", message, add_message(history, max_history, message),
                     history_file)
    IN  Added(<<role, Calls + 1>>)

(* lines 94-96 *)
ClearHistory == ChatCall("clear_history", <<>>, <<>>, history_file)

LoadHistory ==
    ChatCall("load_history", <<>>, load_history(history, history_file), history_file)

SaveHistory ==
    ChatCall("save_history", <<>>, history, save_history(history, history_file))

NextChat ==
    \/ \E role \in {"user", "assistant"} : AddMessage(role)
    \/ ClearHistory
    \/ LoadHistory
    \/ SaveHistory

SpecChat == InitChat /\ [][NextChat]_vars

(* C28: the chat history never holds more than max_history messages: after  *)
(* any sequence of add_message, load_history and clear_history, for every   *)
(* max_history >= 0, len(history) <= max_history, and after add_message the *)
(* history is the most recent (up to max_history) messages in the order     *)
(* they were added.                                                         *)
C28_HistoryWithinMaxHistory ==
    /\ Len(history) <= max_history
    /\ last_call # <<>> /\ last_call[1].name = "add_message"
          => history = LastN(Append(previous_history, last_call[1].message), max_history)

(* C29: saving then loading the chat history restores what was saved: a     *)
(* load_history after a save_history yields the (role, content) pairs the   *)
(* history held at save time; after clear_history and save_history on a     *)
(* store that holds saved messages, the next load_history yields an empty   *)
(* history.                                                                 *)
C29_LoadRestoresWhatWasSaved ==
    /\ last_call # <<>>
    /\ last_call[1].name = "load_history"
    /\ saved_history # <<>>
    => history = saved_history[1]

----------------------------------------------------------------------------
(* Parsed data applied to the stored specification, by the specifications   *)
(* panel (populate_form_from_parsed_data) and by the chat panel (the end of *)
(* parse_spring_specs).                                                     *)

MaxParsedIndex == 3

(* the set point a parser returns for the index: its position, its load,    *)
(* a tolerance of 5 % and enabled                                           *)
ParsedSetPoint(index) ==
    [index |-> index, position |-> 1000 + 100 * index, load |-> 2000 + 100 * index,
     tolerance |-> 500, enabled |-> TRUE]

(* the elements of a set of indices in increasing order *)
RECURSIVE Ascending(_)
Ascending(indices) ==
    IF indices = {} THEN <<>>
    ELSE <<Min(indices)>> \o Ascending(indices \ {Min(indices)})

(* the parsed results: no basic information and a set point for each index  *)
(* of a set of indices                                                      *)
ParsedResults ==
    {[basic_info |-> <<>>,
      set_points |-> [k \in 1..Cardinality(indices) |->
                         ParsedSetPoint(Ascending(indices)[k])]] :
        indices \in SUBSET (0..MaxParsedIndex)}

(* specifications_panel.py lines 685-757 *)
PopulateForm ==
    /\ returned
    /\ steps < MaxSteps
    /\ \E parsed \in ParsedResults :
          LET Populated(h) ==
                  /\ parsed_data' = <<parsed>>
                  /\ form' = h.form
                  /\ spring_specification' = h.stored
                  /\ specifications' = h.specifications
                  /\ settings_calls' = h.calls
                  /\ returned' = h.returned
          IN  Populated(populate_form_from_parsed_data(
                            [form |-> form, stored |-> spring_specification,
                             specifications |-> specifications, calls |-> <<>>,
                             returned |-> TRUE],
                            parsed))
    /\ handler' = "populate_form_from_parsed_data"
    /\ previous_specification' = spring_specification
    /\ steps' = steps + 1
    /\ UNCHANGED <<text_lines, chat_parsed_data, chat_returned, cleaned_text,
                   pdf_parsed_data>>
    /\ UNCHANGED worker_vars
    /\ UNCHANGED late_vars

(* chat_panel.py lines 547-588 *)
ApplyParsedData ==
    /\ returned
    /\ steps < MaxSteps
    /\ \E parsed \in ParsedResults :
          LET Applied(applied) ==
                  /\ chat_parsed_data' = <<parsed>>
                  /\ chat_returned' = << parsed.basic_info # <<>> \/ parsed.set_points # <<>> >>
                  /\ spring_specification' = applied.spec
                  /\ settings_calls' = applied.calls
          IN  Applied(ChatApply(spring_specification, parsed))
    /\ handler' = "parse_spring_specs"
    /\ previous_specification' = spring_specification
    /\ steps' = steps + 1
    /\ UNCHANGED <<text_lines, parsed_data, cleaned_text, pdf_parsed_data, specifications,
                   form, returned>>
    /\ UNCHANGED worker_vars
    /\ UNCHANGED late_vars

NextApply == PopulateForm \/ ApplyParsedData

SpecApply == InitPanel /\ [][NextApply]_vars

(* the parsed data the last handler applied *)
AppliedSetPoints ==
    IF handler = "populate_form_from_parsed_data" THEN parsed_data[1].set_points
    ELSE chat_parsed_data[1].set_points

(* C30: applying parsed data to the stored specification terminates for     *)
(* every parsed result, also one with more set points than are stored; the  *)
(* stored specification has then grown by only as many set points as were   *)
(* needed, and every parsed set point, also one whose index is at or beyond *)
(* the previous count, is stored at its index with the parsed position,     *)
(* load, tolerance and enabled flag.                                        *)
C30_ApplyTerminatesAndStoresAll ==
    handler \in {"populate_form_from_parsed_data", "parse_spring_specs"} =>
        /\ returned
        /\ \A k \in 1..Len(AppliedSetPoints) :
              /\ AppliedSetPoints[k].index < Len(spring_specification.set_points)
              /\ spring_specification.set_points[AppliedSetPoints[k].index + 1] =
                    [position_mm |-> AppliedSetPoints[k].position,
                     load_n |-> AppliedSetPoints[k].load,
                     tolerance_percent |-> AppliedSetPoints[k].tolerance,
                     enabled |-> AppliedSetPoints[k].enabled]
        /\ \/ Len(spring_specification.set_points) = Len(previous_specification.set_points)
           \/ \E k \in 1..Len(AppliedSetPoints) :
                 Len(spring_specification.set_points) = AppliedSetPoints[k].index + 1

====
